---- MODULE Spec2Model ----
(***************************************************************************)
(* Model of the LCZ raster-to-vector pipeline of utils/lcz4r.py:           *)
(*   aggregate_raster, raster_to_polygons, process_lcz_map (block-mode     *)
(*   aggregation, vectorisation, dissolve and catalog join) and            *)
(*   lcz_get_map (geocoding loop, raster access loop, clip, validation),   *)
(*   of the table operations enhance_lcz_data, lcz_cal_area and            *)
(*   validate_lcz_data on the polygon set, and of the session of the page  *)
(*   modules/explorar.py (processar_mapa_lcz and its buttons).             *)
(*                                                                         *)
(* A raster is a function [0..h-1 -> [0..w-1 -> value]] (numpy indexing).  *)
(* A character string is a sequence of word tokens; "x in s" of the code   *)
(* is membership of the token in the sequence.                             *)
(***************************************************************************)
EXTENDS Integers, Sequences, FiniteSets, TLC

VARIABLES
    data,           \* the caller's raster array handed to the pipeline
    input,          \* the contents of that array when the last call was made
    transform,      \* the affine transform of the raster profile
    factor,         \* the aggregation factor
    aggregated,     \* the grid returned by the last call ("none" before it)
    new_transform,  \* the transform returned by the last call
    result,         \* the rows returned by process_lcz_map ("none" before it)
    prev,           \* the calls before the last one: input and output of each
    pc,             \* "ready" (inputs chosen), "aggregated", "processed"
    active,         \* the invocations of lcz_get_map that are running
    get,            \* per invocation: the local variables of lcz_get_map
    lcz_info,       \* the module-level catalog table LCZ_INFO
    gdf,            \* the polygon set held by the caller of the table operations
    quicksort,      \* how the build's quicksort leaves rows of equal key
    ret,            \* the outcome of the last table operation on gdf
    error,          \* the exception that left the last raster pipeline call
    files,          \* the output files on disk: path -> what was last written
    session,        \* st.session_state of the page
    runs,           \* the events of the page so far: runs with their outcome, clicks
    run             \* the local variables of the script run of the page in progress

aggVars == <<data, input, transform, factor, aggregated, new_transform, result, prev, pc>>
getVars == <<active, get>>
tabVars == <<gdf, quicksort, ret>>
envVars == <<error, files, session, runs, run>>
vars == <<data, input, transform, factor, aggregated, new_transform, result, prev, pc,
          active, get, lcz_info, gdf, quicksort, ret,
          error, files, session, runs, run>>

-----------------------------------------------------------------------------
(* Bounds of the model *)

MaxCells == 6
MaxRows == 3
MaxFactor == 2
MaxCoef == 1
MaxCatalogCells == 3
MaxPolys == 3
\* how many chunks (reads of shutil.copyfileobj) the body of the global map has
MaxChunks == 2

(* Program constants *)

NODATA == 255

\* the class codes the model draws pixels from, plus the nodata sentinel
Vals == {3, 5, NODATA}

-----------------------------------------------------------------------------
(* Rasters *)

Height(g) == Cardinality(DOMAIN g)
Width(g) == IF Height(g) = 0 THEN 0 ELSE Cardinality(DOMAIN g[0])

Shapes == {s \in (1..MaxRows) \X (1..MaxCells) : s[1] * s[2] <= MaxCells}

GridsOf(h, w) == [0..(h-1) -> [0..(w-1) -> Vals]]

Grids == UNION {GridsOf(s[1], s[2]) : s \in Shapes}

\* numpy.full((h, w), v)
np_full(h, w, v) == [r \in 0..(h-1) |-> [c \in 0..(w-1) |-> v]]

\* a Python slice lo:hi of an axis of length n
Slice(lo, hi, n) == {k \in 0..(n-1) : lo <= k /\ k < hi}

\* faulty variant: slices one pixel too long
BlockOffByOne(g, i, j, f) ==
    Slice(i*f, (i+1)*f + 1, Height(g)) \X Slice(j*f, (j+1)*f + 1, Width(g))

\* data[i*factor:(i+1)*factor, j*factor:(j+1)*factor], as the set of its pixels
BlockCells(g, i, j, f) ==
    Slice(i*f, (i+1)*f, Height(g)) \X Slice(j*f, (j+1)*f, Width(g))

\* block[block != 255]: the pixels of the block that are kept for the vote
Valid(g, cells) == {p \in cells : g[p[1]][p[2]] # NODATA}

RECURSIVE SortedSeq(_)
SortedSeq(S) ==
    IF S = {} THEN <<>>
    ELSE LET m == CHOOSE x \in S : \A y \in S : x <= y
         IN <<m>> \o SortedSeq(S \ {m})

\* numpy.unique(a, return_counts=True): the distinct values in increasing
\* order, and the number of occurrences of each
np_unique(g, cells) ==
    LET values == SortedSeq({g[p[1]][p[2]] : p \in cells})
    IN [values |-> values,
        counts |-> [k \in DOMAIN values |->
                      Cardinality({p \in cells : g[p[1]][p[2]] = values[k]})]]

\* faulty variant: the last index holding the maximum
np_argmax_last(counts) ==
    CHOOSE k \in DOMAIN counts :
        /\ \A m \in DOMAIN counts : counts[m] <= counts[k]
        /\ \A m \in DOMAIN counts : m > k => counts[m] < counts[k]

\* numpy.argmax: the first index holding the maximum
np_argmax(counts) ==
    CHOOSE k \in DOMAIN counts :
        /\ \A m \in DOMAIN counts : counts[m] <= counts[k]
        /\ \A m \in DOMAIN counts : m < k => counts[m] < counts[k]

\* faulty variant: an all-nodata block takes the value of the cell before it
AggCellStale(g, f, agg, i, j) ==
    LET cells == BlockCells(g, i, j, f)
        u == np_unique(g, Valid(g, cells))
        before == IF j > 0 THEN agg[i][j-1]
                  ELSE IF i > 0 THEN agg[i-1][Width(agg)-1] ELSE NODATA
    IN IF cells # {}
       THEN IF Len(u.values) > 0
            THEN [agg EXCEPT ![i][j] = u.values[np_argmax(u.counts)]]
            ELSE [agg EXCEPT ![i][j] = before]
       ELSE agg

\* the body of the two nested loops for output cell (i, j): the array
\* `aggregated` after the iteration
AggCell(g, f, agg, i, j) ==
    LET cells == BlockCells(g, i, j, f)
        u == np_unique(g, Valid(g, cells))
    IN IF cells # {}
       THEN IF Len(u.values) > 0
            THEN [agg EXCEPT ![i][j] = u.values[np_argmax(u.counts)]]
            ELSE agg
       ELSE agg

\* for i in range(new_height): for j in range(new_width): ...
\* k counts the iterations done, in row-major order
RECURSIVE AggLoop(_, _, _, _)
AggLoop(g, f, agg, k) ==
    LET nh == Height(agg)
        nw == Width(agg)
    IN IF k >= nh * nw THEN agg
       ELSE AggLoop(g, f, AggCell(g, f, agg, k \div nw, k % nw), k + 1)

(* Affine transforms: the matrix | a b c |                                 *)
(*                               | d e f |                                 *)
(*                               | 0 0 1 |                                 *)
Affine(a, b, c, d, e, f) == [a |-> a, b |-> b, c |-> c, d |-> d, e |-> e, f |-> f]

\* Affine.scale(s): the scaling matrix
AffineScale(s) == Affine(s, 0, 0, 0, s, 0)

\* Affine.__mul__: the matrix product m * n
AffineMul(m, n) ==
    Affine(m.a * n.a + m.b * n.d,
           m.a * n.b + m.b * n.e,
           m.a * n.c + m.b * n.f + m.c,
           m.d * n.a + m.e * n.d,
           m.d * n.b + m.e * n.e,
           m.d * n.c + m.e * n.f + m.f)

\* faulty variant: the product taken in the other order
ScaledTransformSwapped(t, f) == AffineMul(AffineScale(f), t)

\* new_transform = transform * transform.scale(factor)
ScaledTransform(t, f) == AffineMul(t, AffineScale(f))

\* faulty variant: the result written into the input array
DataAfterInPlace(g, f) ==
    [r \in DOMAIN g |-> [c \in DOMAIN g[r] |->
        IF r < (Height(g) \div f) /\ c < (Width(g) \div f)
        THEN AggLoop(g, f, np_full(Height(g) \div f, Width(g) \div f, NODATA), 0)[r][c]
        ELSE g[r][c]]]

\* the array `data` after the call: the function only reads it
DataAfter(g, f) == g

\* aggregate_raster(data, transform, factor)
aggregate_raster(g, t, f) ==
    LET new_height == Height(g) \div f
        new_width == Width(g) \div f
    IN [aggregated |-> AggLoop(g, f, np_full(new_height, new_width, NODATA), 0),
        new_transform |-> ScaledTransform(t, f),
        data |-> DataAfter(g, f)]

-----------------------------------------------------------------------------
(* Vectorisation, dissolve and catalog join *)

\* LCZ_INFO: the class catalog as the module defines it, one row per code
\* range(1, 18); the column descricao stands for the four descriptive columns
\* (descricao, efeito_temp, ilha_calor, intervencao), all filled row by row
LCZ_SYMBOLS ==
    <<"LCZ 1", "LCZ 2", "LCZ 3", "LCZ 4", "LCZ 5", "LCZ 6", "LCZ 7", "LCZ 8",
      "LCZ 9", "LCZ 10", "LCZ A", "LCZ B", "LCZ C", "LCZ D", "LCZ E", "LCZ F",
      "LCZ G">>

LCZ_DESCRICAO ==
    <<"Compact high-rise", "Compact midrise", "Compact low-rise", "Open high-rise",
      "Open midrise", "Open low-rise", "Lightweight low-rise", "Large low-rise",
      "Sparsely built", "Heavy industry", "Dense trees", "Scattered trees",
      "Bush, scrub", "Low plants", "Bare rock or paved", "Bare soil or sand",
      "Water">>

LCZ_INFO ==
    [k \in 1..17 |-> [lcz |-> k, zcl_classe |-> LCZ_SYMBOLS[k],
                      descricao |-> LCZ_DESCRICAO[k]]]

\* the pixels sharing an edge with p (rasterio.features.shapes, connectivity 4)
Neighbours(p) ==
    {<<p[1] - 1, p[2]>>, <<p[1] + 1, p[2]>>, <<p[1], p[2] - 1>>, <<p[1], p[2] + 1>>}

AllCells(g) == (DOMAIN g) \X (IF Height(g) = 0 THEN {} ELSE DOMAIN g[0])

\* the connected region of equal value that holds the pixels of `region`
RECURSIVE Grow(_, _)
Grow(g, region) ==
    LET v == g[(CHOOSE p \in region : TRUE)[1]][(CHOOSE p \in region : TRUE)[2]]
        more == {q \in AllCells(g) \ region :
                    /\ g[q[1]][q[2]] = v
                    /\ \E p \in region : q \in Neighbours(p)}
    IN IF more = {} THEN region ELSE Grow(g, region \cup more)

\* position of a pixel in row-major scan order
ScanIndex(g, p) == p[1] * Width(g) + p[2]

\* raster_to_polygons(data, transform, crs): one row per connected region of
\* equal value outside the nodata mask (mask = data != 255), tagged with the value.
\* A geometry is the set of pixels it covers.
raster_to_polygons(g) ==
    LET masked == {p \in AllCells(g) : g[p[1]][p[2]] # NODATA}
        first == {p \in masked :
                    \A q \in Grow(g, {p}) : ScanIndex(g, p) <= ScanIndex(g, q)}
        order == SortedSeq({ScanIndex(g, p) : p \in first})
        at(n) == CHOOSE p \in first : ScanIndex(g, p) = n
    IN [k \in DOMAIN order |->
          [lcz |-> g[at(order[k])[1]][at(order[k])[2]],
           geometry |-> Grow(g, {at(order[k])})]]

\* faulty variant: no grouping
dissolveNoGroup(polygons) == polygons

\* polygons.dissolve(by="lcz").reset_index(): one row per group key, keys in
\* increasing order, the geometries of a group merged
dissolve(polygons) ==
    LET keys == SortedSeq({polygons[k].lcz : k \in DOMAIN polygons})
    IN [n \in DOMAIN keys |->
          [lcz |-> keys[n],
           geometry |-> UNION {polygons[k].geometry :
                                 k \in {m \in DOMAIN polygons : polygons[m].lcz = keys[n]}}]]

\* faulty variant: an inner join, which drops the rows without a catalog entry
RECURSIVE merge_inner(_, _)
merge_inner(left, right) ==
    IF left = <<>> THEN <<>>
    ELSE LET row == Head(left)
             matches == SelectSeq(right, LAMBDA info : info.lcz = row.lcz)
         IN [m \in DOMAIN matches |->
               [lcz |-> row.lcz, geometry |-> row.geometry,
                zcl_classe |-> matches[m].zcl_classe,
                descricao |-> matches[m].descricao]]
            \o merge_inner(Tail(left), right)

\* dissolved.merge(LCZ_INFO, on="lcz", how="left"): every left row once per
\* matching catalog row, or once with absent ("NaN") fields when none matches
RECURSIVE merge_left(_, _)
merge_left(left, right) ==
    IF left = <<>> THEN <<>>
    ELSE LET row == Head(left)
             matches == SelectSeq(right, LAMBDA info : info.lcz = row.lcz)
             joined == IF matches = <<>>
                       THEN <<[lcz |-> row.lcz, geometry |-> row.geometry,
                               zcl_classe |-> "NaN", descricao |-> "NaN"]>>
                       ELSE [m \in DOMAIN matches |->
                               [lcz |-> row.lcz, geometry |-> row.geometry,
                                zcl_classe |-> matches[m].zcl_classe,
                                descricao |-> matches[m].descricao]]
         IN joined \o merge_left(Tail(left), right)

\* faulty variant: the join consumes the catalog rows it matched
RightAfterMergeConsumed(left, right) ==
    SelectSeq(right, LAMBDA info : \A k \in DOMAIN left : left[k].lcz # info.lcz)

\* the right operand after dissolved.merge(LCZ_INFO, ...): merge builds a new
\* frame and leaves both operands as they were
RightAfterMerge(left, right) == right

\* process_lcz_map(raster_data, raster_profile, factor); the catalog it joins
\* is the module-level table, whose contents after the call are reported too
process_lcz_map(g, t, f) ==
    LET agg == aggregate_raster(g, t, f)
        polygons == raster_to_polygons(agg.aggregated)
        dissolved == dissolve(polygons)
    IN [aggregated |-> agg.aggregated,
        new_transform |-> agg.new_transform,
        data |-> agg.data,
        result |-> merge_left(dissolved, lcz_info),
        lcz_info |-> RightAfterMerge(dissolved, lcz_info)]

-----------------------------------------------------------------------------
(* Polygon sets (GeoDataFrame) handed to the table operations *)

\* a polygon set: is_none marks Python's None; crs is the declared CRS ("None"
\* when undefined) and coords the system the coordinates are expressed in;
\* columns are the column names; a row holds the class symbol, the geometry
\* (true ground area m2 in area units, validity) and the area_km2 cell
GeoDataFrame(crs, coords, columns, rows) ==
    [is_none |-> FALSE, crs |-> crs, coords |-> coords, columns |-> columns,
     rows |-> rows]

NoGdf == [is_none |-> TRUE, crs |-> "None", coords |-> "None", columns |-> {},
          rows |-> <<>>]

\* no table operation has run yet
NoRet == [op |-> "none"]

\* an exception: its class and the words of its message; NoExc when none
Exc(cls, msg) == [cls |-> cls, msg |-> msg]
NoExc == Exc("none", <<>>)

\* no output file written yet (LCZ4r_output/lcz_map.tif and
\* LCZ4r_output/lcz_global_map.tif); the global file is the sequence of its
\* chunks: k where it holds chunk k of the global map, 0 where it holds NUL
\* bytes
NoFiles == [lcz_map |-> <<>>, lcz_global_map |-> <<>>]

\* the keys of st.session_state that the LCZ page initialises
session_defaults ==
    [lcz_data |-> <<>>, lcz_raster_data |-> <<>>, lcz_city_name |-> <<>>,
     lcz_processing_success |-> FALSE, lcz_success_message |-> <<>>,
     lcz_error_message |-> <<>>, lcz_validation_result |-> <<>>]

\* st.session_state without any lcz_ key: lcz_schema_version is absent and a
\* key that init_session_state() will create stands at its default
NoKeys ==
    [lcz_schema_version |-> "absent",
     lcz_data |-> session_defaults.lcz_data,
     lcz_raster_data |-> session_defaults.lcz_raster_data,
     lcz_city_name |-> session_defaults.lcz_city_name,
     lcz_processing_success |-> session_defaults.lcz_processing_success,
     lcz_success_message |-> session_defaults.lcz_success_message,
     lcz_error_message |-> session_defaults.lcz_error_message,
     lcz_validation_result |-> session_defaults.lcz_validation_result]

\* no script run of the page in progress; e is the exception an except
\* clause of processar_mapa_lcz has caught and failed_at the stage it left
NoRun == [pc |-> "idle", cidade_nome |-> <<>>, data |-> <<>>, lcz_gdf |-> <<>>,
          enhanced_gdf |-> <<>>, validation_result |-> <<>>,
          e |-> NoExc, failed_at |-> "none"]

-----------------------------------------------------------------------------
(* The aggregation pipeline as a state machine *)

\* a north-up transform: 2-unit pixels, origin (10, 20)
NorthUp == Affine(2, 0, 10, 0, -2, 20)

Init ==
    /\ data \in Grids
    /\ input = data
    /\ factor \in 1..MaxFactor
    /\ transform = NorthUp
    /\ aggregated = "none"
    /\ new_transform = "none"
    /\ result = "none"
    /\ prev = <<>>
    /\ pc = "ready"
    /\ active = {}
    /\ get = [p \in {1, 2} |-> <<>>]
    /\ lcz_info = LCZ_INFO
    /\ gdf = NoGdf
    /\ quicksort = "kept"
    /\ ret = NoRet
    /\ error = NoExc
    /\ files = NoFiles
    /\ session = NoKeys
    /\ runs = <<>>
    /\ run = NoRun

Coefs == (0 - MaxCoef)..MaxCoef

InitTransform ==
    /\ data \in GridsOf(1, 1)
    /\ input = data
    /\ factor \in 1..MaxFactor
    /\ transform \in {Affine(a, b, c, d, e, f) :
                        a \in Coefs \ {0}, b \in Coefs, c \in {0, 7},
                        d \in Coefs, e \in Coefs \ {0}, f \in {7}}
    /\ aggregated = "none"
    /\ new_transform = "none"
    /\ result = "none"
    /\ prev = <<>>
    /\ pc = "ready"
    /\ active = {}
    /\ get = [p \in {1, 2} |-> <<>>]
    /\ lcz_info = LCZ_INFO
    /\ gdf = NoGdf
    /\ quicksort = "kept"
    /\ ret = NoRet
    /\ error = NoExc
    /\ files = NoFiles
    /\ session = NoKeys
    /\ runs = <<>>
    /\ run = NoRun

\* the exception that leaves aggregate_raster, if any: height // factor
\* raises ZeroDivisionError when factor is 0
aggregate_raster_raises(g, t, f) ==
    IF f = 0
    THEN Exc("ZeroDivisionError", <<"integer", "division", "or", "modulo", "by", "zero">>)
    ELSE NoExc

\* the exceptions that can leave process_lcz_map (NoExc: none). The function
\* has no try statement, so what a stage raises leaves it as it is. For an
\* aggregated raster without pixels (height // factor or width // factor is
\* 0), features.shapes is handed an array with a dimension of size 0: whether
\* the library raises ValueError for it or yields no shape is not fixed by
\* this code, and both outcomes are kept (the text of the library's message
\* is left out)
process_lcz_map_raises(g, t, f) ==
    IF aggregate_raster_raises(g, t, f) # NoExc
    THEN {aggregate_raster_raises(g, t, f)}
    ELSE IF Height(g) \div f = 0 \/ Width(g) \div f = 0
    THEN {NoExc, Exc("ValueError", <<>>)}
    ELSE {NoExc}

\* a call of aggregate_raster on the inputs chosen
AggregateRaster ==
    /\ pc = "ready"
    /\ IF aggregate_raster_raises(data, transform, factor) # NoExc
       THEN /\ error' = aggregate_raster_raises(data, transform, factor)
            /\ pc' = "failed"
            /\ UNCHANGED <<data, input, aggregated, new_transform>>
       ELSE /\ LET r == aggregate_raster(data, transform, factor)
               IN /\ aggregated' = r.aggregated
                  /\ new_transform' = r.new_transform
                  /\ data' = r.data
            /\ input' = data
            /\ pc' = "aggregated"
            /\ error' = NoExc
    /\ UNCHANGED <<transform, factor, result, prev, active, get, lcz_info, tabVars,
                   files, session, runs, run>>

\* a call of process_lcz_map on the inputs chosen, with one of the outcomes
\* it can have
ProcessLczMap ==
    /\ pc = "ready"
    /\ \E raised \in process_lcz_map_raises(data, transform, factor) :
         IF raised # NoExc
         THEN /\ error' = raised
              /\ pc' = "failed"
              /\ UNCHANGED <<data, input, aggregated, new_transform, result, lcz_info>>
         ELSE /\ LET r == process_lcz_map(data, transform, factor)
                 IN /\ aggregated' = r.aggregated
                    /\ new_transform' = r.new_transform
                    /\ data' = r.data
                    /\ result' = r.result
                    /\ lcz_info' = r.lcz_info
              /\ input' = data
              /\ pc' = "processed"
              /\ error' = NoExc
    /\ UNCHANGED <<transform, factor, prev, active, get, tabVars, files, session, runs, run>>

\* the caller sets one pixel of its array and calls aggregate_raster a second
\* time; the input and output of the first call are remembered in prev
AggregateAgain ==
    /\ pc = "aggregated"
    /\ prev = <<>>
    /\ \E r \in DOMAIN data : \E c \in DOMAIN data[r] : \E v \in Vals :
         LET changed == [data EXCEPT ![r][c] = v]
             out == aggregate_raster(changed, transform, factor)
         IN /\ prev' = <<[input |-> input, aggregated |-> aggregated,
                         new_transform |-> new_transform]>>
            /\ input' = changed
            /\ aggregated' = out.aggregated
            /\ new_transform' = out.new_transform
            /\ data' = out.data
    /\ UNCHANGED <<transform, factor, result, pc, active, get, lcz_info, tabVars, envVars>>

NextAgg == AggregateRaster \/ ProcessLczMap \/ AggregateAgain

Spec == Init /\ [][NextAgg]_vars

SpecTransform == InitTransform /\ [][NextAgg]_vars

\* pixel values with and without a catalog row: 0 (unclassified pixels of the
\* global map) and 18 have none, 3 has one, 255 is nodata
CatalogVals == {0, 3, 18, NODATA}

\* rasters of at most MaxCatalogCells pixels over CatalogVals
InitCatalog ==
    /\ data \in UNION {[0..(s[1] - 1) -> [0..(s[2] - 1) -> CatalogVals]] :
                        s \in {t \in Shapes : t[1] * t[2] <= MaxCatalogCells}}
    /\ input = data
    /\ factor \in 1..MaxFactor
    /\ transform = NorthUp
    /\ aggregated = "none"
    /\ new_transform = "none"
    /\ result = "none"
    /\ prev = <<>>
    /\ pc = "ready"
    /\ active = {}
    /\ get = [p \in {1, 2} |-> <<>>]
    /\ lcz_info = LCZ_INFO
    /\ gdf = NoGdf
    /\ quicksort = "kept"
    /\ ret = NoRet
    /\ error = NoExc
    /\ files = NoFiles
    /\ session = NoKeys
    /\ runs = <<>>
    /\ run = NoRun

SpecCatalog == InitCatalog /\ [][NextAgg]_vars

\* rasters of at most MaxCatalogCells pixels, and every factor from 0 on
InitFactor ==
    /\ data \in UNION {GridsOf(s[1], s[2]) :
                        s \in {t \in Shapes : t[1] * t[2] <= MaxCatalogCells}}
    /\ input = data
    /\ factor \in 0..MaxFactor
    /\ transform = NorthUp
    /\ aggregated = "none"
    /\ new_transform = "none"
    /\ result = "none"
    /\ prev = <<>>
    /\ pc = "ready"
    /\ active = {}
    /\ get = [p \in {1, 2} |-> <<>>]
    /\ lcz_info = LCZ_INFO
    /\ gdf = NoGdf
    /\ quicksort = "kept"
    /\ ret = NoRet
    /\ error = NoExc
    /\ files = NoFiles
    /\ session = NoKeys
    /\ runs = <<>>
    /\ run = NoRun

SpecFactor == InitFactor /\ [][NextAgg]_vars

-----------------------------------------------------------------------------
(* lcz_get_map: geocoding loop, raster access loop, clip and validation *)

max_retries == 5
geocode_retries == 3

Procs == {1, 2}

\* "x in s" for a string s held as a sequence of tokens
Contains(s, tok) == \E k \in DOMAIN s : s[k] = tok

\* str.lower()
LowerTok(tok) == IF tok = "Timeout" THEN "timeout" ELSE tok
Lower(s) == [k \in DOMAIN s |-> LowerTok(s[k])]

\* the place names and boundaries the model calls lcz_get_map with
Cities == {<<"Lyon">>, <<"Lyon", ",", "France">>, <<"Timeout", "City">>}
RASTER_CRS == "EPSG:4326"
RoiCRS == {"EPSG:4326", "EPSG:3857", "naive"}
GEOCODED_CRS == "EPSG:4326"

\* what the geocoding service may answer with when it fails
GeoErrors ==
    {Exc("InsufficientResponseError", <<"Nominatim", "returned", "no", "results">>),
     Exc("requests.ReadTimeout", <<"Read", "timed", "out">>)}

\* what the raster service, the network and the libraries may raise
ConnReset == Exc("requests.ConnectionError", <<"Connection", "reset", "by", "peer">>)
ReadTimeout == Exc("requests.Timeout", <<"Read", "timed", "out">>)
Rio404 == Exc("rasterio.RasterioIOError", <<"HTTP", "response", "code", ":", "404">>)
RioRead == Exc("rasterio.RasterioIOError", <<"Read", "failed">>)
GenTimeout == Exc("Exception", <<"Timeout", "was", "reached">>)
GenNoFile == Exc("Exception", <<"No such file or directory">>)
NoOverlap == Exc("ValueError", <<"Input", "shapes", "do", "not", "overlap", "raster">>)
NaiveCRS == Exc("ValueError", <<"Cannot", "transform", "naive", "geometries">>)

OpenErrors == {ConnReset, ReadTimeout, Rio404, GenTimeout, GenNoFile}
MaskErrors == {RioRead, NoOverlap}

\* what the save of the clip may raise: os.makedirs on a directory that may
\* not be written, rasterio.open(output_path, "w") and dst.write on the disk
PermissionDenied == Exc("PermissionError", <<"Permission", "denied">>)
RioWrite == Exc("rasterio.RasterioIOError", <<"Write", "failed">>)

\* what the copy of the global map may raise: requests.get, raise_for_status
\* (requests.exceptions.HTTPError, no class of the first except clause) and
\* the read of r.raw by shutil.copyfileobj
Http404 == Exc("requests.HTTPError", <<"404", "Client", "Error", ":", "Not", "Found">>)
RawBroken == Exc("urllib3.ProtocolError", <<"Connection", "broken">>)

SaveErrors == {PermissionDenied, RioWrite, Http404, RawBroken}

\* what the raster holds inside the boundary, as the clip gives it: 1 x 2
\* rasters of class 3 and nodata
ClipGrids == {g \in GridsOf(1, 2) : \A c \in DOMAIN g[0] : g[0][c] \in {3, NODATA}}

\* the classes of the first except clause of the raster loop
NetworkClasses ==
    {"requests.ConnectionError", "requests.Timeout", "urllib3.NewConnectionError",
     "rasterio.RasterioIOError"}

\* faulty variant: the country appended on the second attempt to every name
GeocodeQueryAlwaysCountry(city, k) ==
    IF k = 0 THEN city
    ELSE IF k = 1 THEN city \o <<",", "Brazil">>
         ELSE city \o <<"city">>

\* the query of geocoding attempt k (0-based) for a place name
GeocodeQuery(city, k) ==
    IF k = 0 THEN city
    ELSE IF k = 1
         THEN IF ~Contains(city, ",") THEN city \o <<",", "Brazil">> ELSE city
         ELSE city \o <<"city">>

\* faulty variant: the last error left out of the message
GeocodeErrorMsgNoCause(city, last) ==
    <<"Nao foi possivel encontrar a cidade">> \o city
        \o <<"Verifique se o nome esta correto e tente variacoes como">>
        \o city \o <<",", "Brazil">> \o <<"ou">> \o city \o <<"city">>

\* the message of the GeocodeError raised after the loop
GeocodeErrorMsg(city, last) ==
    <<"Nao foi possivel encontrar a cidade">> \o city
        \o <<"Verifique se o nome esta correto e tente variacoes como">>
        \o city \o <<",", "Brazil">> \o <<"ou">> \o city \o <<"city">>
        \o <<"Ultimo erro:">> \o last.msg

\* f"{city}" in a message: the name, or "None" when no city was given
CityText(g) == IF g.has_city THEN g.city ELSE <<"None">>

NoValidDataMsg(g) ==
    <<"Nenhum dado LCZ valido encontrado para">> \o CityText(g)
        \o <<"A area pode estar fora da cobertura do mapa LCZ global ou",
             "o nome da cidade pode estar incorreto.">>

ConnectionFailedMsg ==
    <<"Falha na conexao com o servico de dados LCZ apos multiplas tentativas.",
      "Conexao com a internet instavel", "Servico temporariamente indisponivel",
      "Firewall bloqueando o acesso", "Tente novamente em alguns minutos.">>

TimeoutMsg ==
    <<"Timeout na conexao com o servico de dados LCZ.",
      "Verifique sua conexao com a internet.">>

UnavailableMsg ==
    <<"O arquivo de dados LCZ nao esta disponivel no servidor.",
      "Tente novamente mais tarde.">>

Pow2(n) == IF n = 0 THEN 1 ELSE IF n = 1 THEN 2 ELSE IF n = 2 THEN 4
           ELSE IF n = 3 THEN 8 ELSE IF n = 4 THEN 16 ELSE 32

Min(a, b) == IF a <= b THEN a ELSE b

\* valid_data = data[data != new_nodata]; len(valid_data)
LenValid(grid) == Cardinality({p \in AllCells(grid) : grid[p[1]][p[2]] # NODATA})

\* every failure the services and libraries may answer a call with
AllFaults == GeoErrors \cup OpenErrors \cup MaskErrors \cup SaveErrors

\* the local variables of a call before its first statement; isave_map and
\* isave_global are the parameters (False by default), data the clip (unset
\* before the clip), copied the chunks of the global map that the call has
\* written to its file, and faults the failures that the services, the libraries
\* and the disk can answer this call with
Called(has_city, city, has_roi, roi_crs, coverage) ==
    [pc |-> "called",
     has_city |-> has_city, city |-> city, has_roi |-> has_roi, roi_crs |-> roi_crs,
     coverage |-> coverage,
     geocode_success |-> FALSE, geocode_attempt |-> 0,
     last_geocode_error |-> NoExc,
     study_crs |-> "unset", resolved_crs |-> "unset", attempt |-> 0, e |-> NoExc,
     queries |-> <<>>, geo_failed |-> <<>>, sleeps |-> <<>>, opens |-> 0, reprojections |-> 0,
     clips |-> <<>>, caught |-> <<>>, data |-> <<>>, copied |-> 0,
     raised |-> NoExc, returned |-> <<>>,
     isave_map |-> FALSE, isave_global |-> FALSE, faults |-> AllFaults]

Idle == [Called(FALSE, <<>>, FALSE, "unset", np_full(1, 2, NODATA)) EXCEPT !.pc = "idle"]

\* calls that save: the clip, the global map or both, for a boundary in the
\* CRS of the raster; the network may reset the connection and every step of
\* the save may fail
SavingInputs ==
    {[Called(FALSE, <<>>, TRUE, RASTER_CRS, np_full(1, 2, 3)) EXCEPT
         !.isave_map = save[1], !.isave_global = save[2],
         !.faults = {ConnReset} \cup SaveErrors] :
       save \in (BOOLEAN \X BOOLEAN) \ {<<FALSE, FALSE>>}}

CallInputs ==
    UNION {{Called(TRUE, c, FALSE, "unset", cov) : c \in Cities}
             \cup {Called(FALSE, <<>>, TRUE, crs, cov) : crs \in RoiCRS}
             \cup {Called(TRUE, <<"Lyon">>, TRUE, "EPSG:3857", cov),
                   Called(FALSE, <<>>, FALSE, "unset", cov)} : cov \in ClipGrids}
    \cup SavingInputs

\* faulty variant: the loop counters are kept in one place for all calls
StoreShared(p, g) ==
    [q \in Procs |->
        IF q = p THEN g
        ELSE IF get[q].pc \in {"geocode", "raster"}
             THEN [get[q] EXCEPT !.attempt = g.attempt,
                                 !.geocode_attempt = g.geocode_attempt]
             ELSE get[q]]

\* the local variables of call p become g: geocode_attempt, attempt and the
\* other names of lines 156-163 and 214 are locals of the call frame
Store(p, g) == [get EXCEPT ![p] = g]

\* if city is None and roi is None: raise ValueError; else enter stage 1 or 2
GetStart(p) ==
    /\ get[p].pc = "called"
    /\ get' = Store(p,
         IF ~get[p].has_city /\ ~get[p].has_roi
         THEN [get[p] EXCEPT !.pc = "raised",
                        !.raised = Exc("ValueError", <<"Forneca um nome de cidade ou um poligono ROI">>)]
         ELSE IF get[p].has_city
              THEN [get[p] EXCEPT !.pc = "geocode"]
              ELSE [get[p] EXCEPT !.pc = "raster", !.study_crs = get[p].roi_crs,
                             !.resolved_crs = get[p].roi_crs,
                             !.geocode_success = TRUE])
    /\ UNCHANGED <<aggVars, active, lcz_info, tabVars, envVars>>

\* one iteration of the geocoding loop; after the last failed one, the raise
\* of GeocodeError that follows the loop
GeocodeFail(g, err) ==
    LET g1 == [g EXCEPT !.queries = Append(@, GeocodeQuery(g.city, g.geocode_attempt)),
                        !.geo_failed = Append(@, err),
                        !.last_geocode_error = err]
    IN IF g.geocode_attempt < geocode_retries - 1
       THEN [g1 EXCEPT !.sleeps = Append(@, Pow2(g.geocode_attempt) + 1),
                       !.geocode_attempt = @ + 1]
       ELSE [g1 EXCEPT !.pc = "raised",
                       !.raised = Exc("GeocodeError", GeocodeErrorMsg(g.city, err))]

GeocodeOk(g) ==
    [g EXCEPT !.queries = Append(@, GeocodeQuery(g.city, g.geocode_attempt)),
              !.study_crs = GEOCODED_CRS,
              !.resolved_crs = GEOCODED_CRS,
              !.geocode_success = TRUE,
              !.pc = "raster"]

GeocodeAttempt(p) ==
    /\ get[p].pc = "geocode"
    /\ get[p].geocode_attempt < geocode_retries
    /\ \/ get' = Store(p, GeocodeOk(get[p]))
       \/ \E err \in GeoErrors \cap get[p].faults :
             get' = Store(p, GeocodeFail(get[p], err))
    /\ UNCHANGED <<aggVars, active, lcz_info, tabVars, envVars>>

\* the two except clauses of the raster loop, for exception err caught in
\* iteration g.attempt, wherever in the try block it was raised; after the
\* wait the loop goes on with the next iteration
Handle(g, err) ==
    LET g1 == [g EXCEPT !.e = err, !.caught = Append(@, err)]
    IN IF err.cls \in NetworkClasses
       THEN IF g.attempt < max_retries - 1
            THEN [g1 EXCEPT !.sleeps = Append(@, Min(Pow2(g.attempt + 1), 30)),
                            !.attempt = @ + 1, !.pc = "raster"]
            ELSE [g1 EXCEPT !.pc = "raised",
                            !.raised = Exc("ConnectionError", ConnectionFailedMsg)]
       ELSE IF Contains(err.msg, "No such file or directory") \/ Contains(err.msg, "404")
            THEN [g1 EXCEPT !.pc = "raised",
                            !.raised = Exc("DataProcessingError", UnavailableMsg)]
            ELSE IF Contains(Lower(err.msg), "timeout")
                 THEN IF g.attempt < max_retries - 1
                      THEN [g1 EXCEPT !.sleeps = Append(@, 5), !.attempt = @ + 1,
                                      !.pc = "raster"]
                      ELSE [g1 EXCEPT !.pc = "raised",
                                      !.raised = Exc("ConnectionError", TimeoutMsg)]
                 ELSE [g1 EXCEPT !.pc = "raised",
                                 !.raised = Exc("DataProcessingError",
                                     <<"Erro no processamento dos dados LCZ:">> \o err.msg)]

\* rasterio.open(...) of iteration g.attempt
Opened(g) == [g EXCEPT !.opens = @ + 1]

\* faulty variant: the CRS never compared
NeedsReprojectionNever(g) == FALSE

\* if study_area_gdf.crs != src.crs: study_area_gdf = study_area_gdf.to_crs(src.crs)
NeedsReprojection(g) == g.study_crs # RASTER_CRS

Reprojected(g) ==
    IF NeedsReprojection(g)
    THEN [g EXCEPT !.study_crs = RASTER_CRS, !.reprojections = @ + 1]
    ELSE g

\* mask(src, geometries, crop=True, ...): the clip, with the boundary as it is
Clipped(g) == [g EXCEPT !.clips = Append(@, g.study_crs)]

\* the statements after the clip (data = out_image[0]): validation, then the
\* save when isave_map or isave_global is set, else return (data, profile)
AfterClip(g, grid) ==
    IF LenValid(grid) = 0
    THEN Handle(g, Exc("DataProcessingError", NoValidDataMsg(g)))
    ELSE IF g.isave_map \/ g.isave_global
         THEN [g EXCEPT !.pc = "saving", !.data = <<grid>>]
         ELSE [g EXCEPT !.pc = "returned", !.data = <<grid>>, !.returned = <<grid>>]

\* one iteration of the raster loop, up to the return or, for a call that
\* saves its clip, up to the opening of the output file
RasterAttempt(p) ==
    /\ get[p].pc = "raster"
    /\ get[p].attempt < max_retries
    /\ LET g0 == Opened(get[p])
       IN \/ \E err \in OpenErrors \cap g0.faults : get' = Store(p, Handle(g0, err))
          \/ /\ NeedsReprojection(g0)
             /\ g0.study_crs = "naive"
             /\ get' = Store(p, Handle(g0, NaiveCRS))
          \/ /\ ~(NeedsReprojection(g0) /\ g0.study_crs = "naive")
             /\ \E err \in MaskErrors \cap g0.faults :
                  get' = Store(p, Handle(Reprojected(g0), err))
          \/ /\ ~(NeedsReprojection(g0) /\ g0.study_crs = "naive")
             /\ get' = Store(p, AfterClip(Clipped(Reprojected(g0)), g0.coverage))
    /\ UNCHANGED <<aggVars, active, lcz_info, tabVars, envVars>>

\* the save is inside the try block of the raster loop: what one of its
\* statements raises is caught by the except clauses of the loop, which wait
\* and open the remote raster again, or raise.
\* os.makedirs("LCZ4r_output", exist_ok=True), then for isave_map
\* rasterio.open(output_path, "w", **profile): the file at the fixed path
\* LCZ4r_output/lcz_map.tif is created anew, whatever it held, and holds no
\* grid until the write
OpenOutput(p) ==
    /\ get[p].pc = "saving"
    /\ \/ /\ \E err \in {PermissionDenied} \cap get[p].faults :
               get' = Store(p, Handle(get[p], err))
          /\ UNCHANGED files
       \/ /\ get[p].isave_map
          /\ \E err \in {RioWrite} \cap get[p].faults :
               get' = Store(p, Handle(get[p], err))
          /\ UNCHANGED files
       \/ /\ get[p].isave_map
          /\ get' = Store(p, [get[p] EXCEPT !.pc = "writing"])
          /\ files' = [files EXCEPT !.lcz_map = <<>>]
       \/ /\ ~get[p].isave_map
          /\ get' = Store(p, [get[p] EXCEPT !.pc = "global"])
          /\ UNCHANGED files
    /\ UNCHANGED <<aggVars, active, lcz_info, tabVars, error, session, runs, run>>

\* dst.write(data, 1) and the end of the with block: the file holds the clip
\* of this call, or is left without a grid when the write fails
WriteOutput(p) ==
    /\ get[p].pc = "writing"
    /\ \/ /\ \E err \in {RioWrite} \cap get[p].faults :
               get' = Store(p, Handle(get[p], err))
          /\ UNCHANGED files
       \/ /\ get' = Store(p, [get[p] EXCEPT
                                 !.pc = IF get[p].isave_global THEN "global" ELSE "written"])
          /\ files' = [files EXCEPT !.lcz_map = get[p].data]
    /\ UNCHANGED <<aggVars, active, lcz_info, tabVars, error, session, runs, run>>

\* isave_global: requests.get(lcz_url, stream=True), r.raise_for_status()
\* and open(global_path, "wb"), which truncates
\* LCZ4r_output/lcz_global_map.tif and gives this call a file position of
\* its own at the start of the file
DownloadGlobal(p) ==
    /\ get[p].pc = "global"
    /\ \/ /\ \E err \in {ConnReset, Http404} \cap get[p].faults :
               get' = Store(p, Handle(get[p], err))
          /\ UNCHANGED files
       \/ /\ get' = Store(p, [get[p] EXCEPT !.pc = "copying", !.copied = 0])
          /\ files' = [files EXCEPT !.lcz_global_map = <<>>]
    /\ UNCHANGED <<aggVars, active, lcz_info, tabVars, error, session, runs, run>>

\* one round of the loop of shutil.copyfileobj(r.raw, f): the read of the
\* next chunk of the body, which fails when the connection breaks and leaves
\* the file as it is, and the write of the chunk at the file position of
\* this call. A file that another call truncated in between is shorter than
\* the position and the gap reads as NUL (0). The file is closed after the
\* last chunk of the body.
CopyGlobal(p) ==
    /\ get[p].pc = "copying"
    /\ \/ /\ \E err \in {RawBroken} \cap get[p].faults :
               get' = Store(p, Handle(get[p], err))
          /\ UNCHANGED files
       \/ /\ get' = Store(p, [get[p] EXCEPT
                                  !.copied = @ + 1,
                                  !.pc = IF get[p].copied + 1 = MaxChunks
                                         THEN "written" ELSE "copying"])
          /\ files' = [files EXCEPT !.lcz_global_map =
                 [i \in 1..(IF Len(@) > get[p].copied + 1
                            THEN Len(@) ELSE get[p].copied + 1) |->
                     IF i = get[p].copied + 1 THEN i
                     ELSE IF i <= Len(@) THEN @[i] ELSE 0]]
    /\ UNCHANGED <<aggVars, active, lcz_info, tabVars, error, session, runs, run>>

\* the prints of the save and return data, profile
ReturnData(p) ==
    /\ get[p].pc = "written"
    /\ get' = Store(p, [get[p] EXCEPT !.pc = "returned", !.returned = get[p].data])
    /\ UNCHANGED <<aggVars, active, lcz_info, tabVars, envVars>>

InitGet ==
    /\ data = np_full(1, 1, NODATA)
    /\ input = data
    /\ factor = 1
    /\ transform = NorthUp
    /\ aggregated = "none"
    /\ new_transform = "none"
    /\ result = "none"
    /\ prev = <<>>
    /\ pc = "ready"
    /\ active = {1}
    /\ \E c \in CallInputs : get = [p \in Procs |-> IF p \in active THEN c ELSE Idle]
    /\ lcz_info = LCZ_INFO
    /\ gdf = NoGdf
    /\ quicksort = "kept"
    /\ ret = NoRet
    /\ error = NoExc
    /\ files = NoFiles
    /\ session = NoKeys
    /\ runs = <<>>
    /\ run = NoRun

Start == \E p \in active : GetStart(p)

Geocode == \E p \in active : GeocodeAttempt(p)

Raster == \E p \in active : RasterAttempt(p)

Save ==
    \E p \in active :
        OpenOutput(p) \/ WriteOutput(p) \/ DownloadGlobal(p) \/ CopyGlobal(p) \/ ReturnData(p)

NextGet == Start \/ Geocode \/ Raster \/ Save

SpecGet == InitGet /\ [][NextGet]_vars

\* two calls of lcz_get_map at the same time, each for a place of its own
\* with its own clip, saving the clip or not; each may meet one kind of
\* geocoding failure and one kind of network failure. One more call saves
\* the clip and the global map, and the write of its clip and the copy of the
\* global map may fail
PairPlaces ==
    {<<<<"Lyon">>, [r \in {0} |-> [c \in {0, 1} |-> 3]]>>,
     <<<<"Paris">>, [r \in {0} |-> [c \in {0, 1} |-> IF c = 0 THEN 3 ELSE NODATA]]>>,
     <<<<"Nice">>, [r \in {0} |-> [c \in {0, 1} |-> IF c = 0 THEN NODATA ELSE 3]]>>}

PairInputs ==
    {[Called(TRUE, place[1], FALSE, "unset", place[2]) EXCEPT
         !.isave_map = save,
         !.faults = {Exc("InsufficientResponseError",
                         <<"Nominatim", "returned", "no", "results">>), ConnReset}] :
       place \in PairPlaces, save \in BOOLEAN}
    \cup
    {[Called(FALSE, <<>>, TRUE, RASTER_CRS, np_full(1, 2, 3)) EXCEPT
         !.isave_map = TRUE, !.isave_global = TRUE, !.faults = {RioWrite, RawBroken}]}

InitPair ==
    /\ data = np_full(1, 1, NODATA)
    /\ input = data
    /\ factor = 1
    /\ transform = NorthUp
    /\ aggregated = "none"
    /\ new_transform = "none"
    /\ result = "none"
    /\ prev = <<>>
    /\ pc = "ready"
    /\ active = Procs
    /\ get \in [Procs -> PairInputs]
    /\ lcz_info = LCZ_INFO
    /\ gdf = NoGdf
    /\ quicksort = "kept"
    /\ ret = NoRet
    /\ error = NoExc
    /\ files = NoFiles
    /\ session = NoKeys
    /\ runs = <<>>
    /\ run = NoRun

SpecPair == InitPair /\ [][NextGet]_vars

-----------------------------------------------------------------------------
(* Numbers of the area table.  An area is counted in units of 0.0001 km2 and *)
(* a percentage in units of 0.01; a float is a record so that NaN is a value *)

Number(v) == [nan |-> FALSE, val |-> v]
NaN == [nan |-> TRUE, val |-> 0]

\* n / d rounded to the nearest integer, halves to the even neighbour
\* (numpy.round), for n >= 0 and d > 0
RoundHalfEven(n, d) ==
    LET q == n \div d
        r == n % d
    IN IF 2 * r < d THEN q
       ELSE IF 2 * r > d THEN q + 1
       ELSE IF q % 2 = 0 THEN q ELSE q + 1

\* .round(3) of an area: three decimals of a km2 are tens of area units
round3(x) == RoundHalfEven(x, 10) * 10

RECURSIVE SumSeq(_)
SumSeq(s) == IF s = <<>> THEN 0 ELSE Head(s) + SumSeq(Tail(s))

\* the characters (code points) of the class symbols, for string comparison
CharCodes ==
    [s \in {LCZ_SYMBOLS[k] : k \in 1..17} \cup {"LCZ X"} |->
        <<76, 67, 90, 32>> \o
        CASE s = "LCZ 1" -> <<49>>      [] s = "LCZ 2" -> <<50>>
          [] s = "LCZ 3" -> <<51>>      [] s = "LCZ 4" -> <<52>>
          [] s = "LCZ 5" -> <<53>>      [] s = "LCZ 6" -> <<54>>
          [] s = "LCZ 7" -> <<55>>      [] s = "LCZ 8" -> <<56>>
          [] s = "LCZ 9" -> <<57>>      [] s = "LCZ 10" -> <<49, 48>>
          [] s = "LCZ A" -> <<65>>      [] s = "LCZ B" -> <<66>>
          [] s = "LCZ C" -> <<67>>      [] s = "LCZ D" -> <<68>>
          [] s = "LCZ E" -> <<69>>      [] s = "LCZ F" -> <<70>>
          [] s = "LCZ G" -> <<71>>      [] s = "LCZ X" -> <<88>>]

\* a < b for sequences of code points: Python's order of strings
RECURSIVE SeqLess(_, _)
SeqLess(a, b) ==
    IF b = <<>> THEN FALSE
    ELSE IF a = <<>> THEN TRUE
    ELSE IF Head(a) # Head(b) THEN Head(a) < Head(b)
    ELSE SeqLess(Tail(a), Tail(b))

StrLess(a, b) == SeqLess(CharCodes[a], CharCodes[b])

\* the strings of a set in increasing order
RECURSIVE SortStrings(_)
SortStrings(S) ==
    IF S = {} THEN <<>>
    ELSE LET m == CHOOSE x \in S : \A y \in S \ {x} : StrLess(x, y)
         IN <<m>> \o SortStrings(S \ {m})

-----------------------------------------------------------------------------
(* enhance_lcz_data and lcz_cal_area *)

\* crs.is_geographic: longitude / latitude in degrees
is_geographic(crs) == crs = "EPSG:4326"

\* gdf.to_crs(target): a new frame with the coordinates in the target system
to_crs(g, target) == [g EXCEPT !.crs = target, !.coords = target]

\* geometry.area / 1e6 in area units, as the plane figure measures in the
\* coordinates it is expressed in: the ground area in an equal-area system
\* (ESRI:54009, Mollweide); inflated by sec^2(latitude), 2 at 45 degrees, in
\* Web Mercator (EPSG:3857); square degrees, of which one area unit holds
\* about 10^8, when the coordinates are longitude / latitude
Measure(geometry, coords) ==
    CASE coords = "ESRI:54009" -> geometry.m2
      [] coords = "EPSG:3857" -> geometry.m2 * 2
      [] OTHER -> geometry.m2 \div 100000000

\* gdf["area_km2"] = gdf.geometry.area / 1e6
set_area(g) ==
    [g EXCEPT !.columns = @ \cup {"area_km2"},
              !.rows = [k \in DOMAIN g.rows |->
                          [g.rows[k] EXCEPT
                              !.area_km2 = Measure(g.rows[k].geometry, g.coords)]]]

\* enhance_lcz_data(gdf): a copy with the area_km2 column, measured in the
\* coordinates the frame has; measured names that coordinate system
enhance_lcz_data(g) ==
    [gdf |-> set_area(g), measured |-> g.coords]

\* faulty variant: no copy is made, the name is bound to the same object
copy_alias(objs, ref) == [objs |-> objs, ref |-> ref]

\* gdf.copy(), over the frame objects of a call (objs, object 1 the caller's
\* frame): a new object with the contents of the one copied
copy(objs, ref) == [objs |-> Append(objs, objs[ref]), ref |-> Len(objs) + 1]

\* gdf_work.to_crs(target), over the frame objects: a new object
to_crs_new(c, target) ==
    [objs |-> Append(c.objs, to_crs(c.objs[c.ref], target)), ref |-> Len(c.objs) + 1]

\* gdf_work['area_km2'] = ...: the column is assigned in the object the name
\* is bound to; measured names the coordinates the areas were measured in
setitem_area(c) ==
    [objs |-> [c.objs EXCEPT ![c.ref] = set_area(c.objs[c.ref])], gdf_work |-> c.ref,
     measured |-> c.objs[c.ref].coords]

\* gdf_work of lcz_cal_area: the name is bound to a copy of the caller's
\* frame; when that has no area_km2 column the name is bound anew to the
\* frame to_crs returns if the CRS is defined and geographic, and the column
\* is then assigned in the object the name is bound to
AreaWork(g) ==
    IF "area_km2" \in g.columns
    THEN [objs |-> copy(<<g>>, 1).objs, gdf_work |-> copy(<<g>>, 1).ref,
          measured |-> "none"]
    ELSE IF g.crs # "None" /\ is_geographic(g.crs)
         THEN setitem_area(to_crs_new(copy(<<g>>, 1), "ESRI:54009"))
         ELSE setitem_area(copy(<<g>>, 1))

\* the group keys of groupby('zcl_classe'): the distinct symbols in increasing
\* string order, absent symbols dropped (dropna)
GroupKeys(rows) ==
    SortStrings({rows[k].zcl_classe : k \in DOMAIN rows} \ {"NaN"})

Max(S) == CHOOSE x \in S : \A y \in S : y <= x
MinOf(S) == CHOOSE x \in S : \A y \in S : x <= y

\* one row of groupby(...).agg(sum, count, mean, min, max).round(3); the std
\* column is left out
GroupStats(rows, key) ==
    LET members == SelectSeq(rows, LAMBDA r : r.zcl_classe = key)
        areas == [k \in DOMAIN members |-> members[k].area_km2]
    IN [zcl_classe |-> key,
        area_total_km2 |-> round3(SumSeq(areas)),
        num_poligonos |-> Len(members),
        area_media_km2 |-> RoundHalfEven(SumSeq(areas), Len(members) * 10) * 10,
        area_min_km2 |-> round3(MinOf({areas[k] : k \in DOMAIN areas})),
        area_max_km2 |-> round3(Max({areas[k] : k \in DOMAIN areas}))]

\* area_total_km2 / total_area * 100, .round(2), in hundredths of a percent;
\* 0 / 0 is NaN in float arithmetic and raises nothing
Percentual(area, total_area) ==
    IF total_area = 0 THEN NaN
    ELSE Number(RoundHalfEven(area * 10000, total_area))

\* faulty variant: ascending order
sort_values_ascending(rows, ties) ==
    LET n == Len(rows)
        before(i, j) ==
            \/ rows[i].area_total_km2 < rows[j].area_total_km2
            \/ /\ rows[i].area_total_km2 = rows[j].area_total_km2
               /\ i < j
        rank(i) == Cardinality({j \in 1..n : j # i /\ before(j, i)}) + 1
    IN [k \in 1..n |-> rows[CHOOSE i \in 1..n : rank(i) = k]]

\* sort_values('area_total_km2', ascending=False) with the default
\* kind='quicksort', which is not a stable sort: rows of equal area come out
\* in the order the build's quicksort leaves them, either as they were
\* ("kept") or the other way round ("reversed")
sort_values(rows, ties) ==
    LET n == Len(rows)
        before(i, j) ==
            \/ rows[i].area_total_km2 > rows[j].area_total_km2
            \/ /\ rows[i].area_total_km2 = rows[j].area_total_km2
               /\ IF ties = "kept" THEN i < j ELSE i > j
        rank(i) == Cardinality({j \in 1..n : j # i /\ before(j, i)}) + 1
    IN [k \in 1..n |-> rows[CHOOSE i \in 1..n : rank(i) = k]]

\* the caller's frame after lcz_cal_area: object 1 as the statements of the
\* call have left it
GdfAfter(work) == work.objs[1]

\* lcz_cal_area(gdf) with return_stats and return_plot_data left at True;
\* reading gdf_work.geometry without a geometry column raises AttributeError,
\* and iloc[0] of a table without rows raises IndexError
lcz_cal_area(g, ties) ==
    IF g.is_none \/ Len(g.rows) = 0
    THEN [raised |-> Exc("ValueError", <<"GeoDataFrame", "vazio", "ou", "None", "fornecido">>),
          gdf |-> g, measured |-> "none"]
    ELSE IF "zcl_classe" \notin g.columns
    THEN [raised |-> Exc("ValueError", <<"Colunas", "obrigatorias", "ausentes", "zcl_classe">>),
          gdf |-> g, measured |-> "none"]
    ELSE IF "area_km2" \notin g.columns /\ "geometry" \notin g.columns
    THEN [raised |-> Exc("AttributeError", <<"geometry">>),
          gdf |-> g, measured |-> "none"]
    ELSE
      LET work == AreaWork(g)
          rows == work.objs[work.gdf_work].rows
          keys == GroupKeys(rows)
          area_stats == [n \in DOMAIN keys |-> GroupStats(rows, keys[n])]
          total_area == SumSeq([n \in DOMAIN area_stats |-> area_stats[n].area_total_km2])
          with_pct == [n \in DOMAIN area_stats |->
                         [zcl_classe |-> area_stats[n].zcl_classe,
                          area_total_km2 |-> area_stats[n].area_total_km2,
                          num_poligonos |-> area_stats[n].num_poligonos,
                          area_media_km2 |-> area_stats[n].area_media_km2,
                          area_min_km2 |-> area_stats[n].area_min_km2,
                          area_max_km2 |-> area_stats[n].area_max_km2,
                          percentual |-> Percentual(area_stats[n].area_total_km2,
                                                    total_area)]]
          sorted == sort_values(with_pct, ties)
      IN IF Len(sorted) = 0
         THEN [raised |-> Exc("IndexError", <<"single", "positional", "indexer",
                                             "is", "out-of-bounds">>),
               gdf |-> GdfAfter(work), measured |-> work.measured]
         ELSE [raised |-> NoExc,
               stats |-> sorted,
               plot_data |->
                   [classes |-> [n \in DOMAIN sorted |-> sorted[n].zcl_classe],
                    areas |-> [n \in DOMAIN sorted |-> sorted[n].area_total_km2],
                    percentuais |-> [n \in DOMAIN sorted |-> sorted[n].percentual],
                    num_poligonos |-> [n \in DOMAIN sorted |-> sorted[n].num_poligonos]],
               summary |->
                   [total_area_km2 |-> total_area,
                    num_classes |-> Len(sorted),
                    num_total_poligonos |->
                        SumSeq([n \in DOMAIN sorted |-> sorted[n].num_poligonos]),
                    classe_dominante |-> sorted[1].zcl_classe,
                    area_classe_dominante_km2 |-> sorted[1].area_total_km2,
                    percentual_classe_dominante |-> sorted[1].percentual],
               gdf |-> GdfAfter(work),
               measured |-> work.measured]

-----------------------------------------------------------------------------
(* validate_lcz_data *)

valid_classes == {LCZ_SYMBOLS[k] : k \in 1..17}

\* faulty variant: a warning also blocks
AppendWarningBlocking(r, w) ==
    [r EXCEPT !.valid = FALSE, !.warnings = Append(@, w),
              !.errors = Append(@, [msg |-> w.msg, cols |-> {}])]

\* validation_result['warnings'].append(...)
AppendWarning(r, w) == [r EXCEPT !.warnings = Append(@, w)]

\* faulty variant: the dict of the previous call is used again
NewReportKept ==
    IF ret.op = "validate_lcz_data"
    THEN ret.validation_result
    ELSE [valid |-> TRUE, warnings |-> <<>>, errors |-> <<>>, info |-> <<>>]

\* validation_result = {'valid': True, 'warnings': [], 'errors': [], 'info': []}:
\* a dict built inside the call
NewReport == [valid |-> TRUE, warnings |-> <<>>, errors |-> <<>>, info |-> <<>>]

\* the body of the try block, up to the statement that raises or to its end;
\* reading gdf.geometry without a geometry column raises AttributeError and
\* gdf['zcl_classe'] without that column raises KeyError
TryValidate(g) ==
    LET start == NewReport
    IN IF g.is_none \/ Len(g.rows) = 0
       THEN [validation_result |->
                [start EXCEPT !.valid = FALSE,
                              !.errors = <<[msg |-> "GeoDataFrame vazio ou None",
                                            cols |-> {}]>>],
             raised |-> NoExc]
       ELSE
         LET missing_columns == {"zcl_classe", "geometry"} \ g.columns
             r1 == IF missing_columns # {}
                   THEN [start EXCEPT !.valid = FALSE,
                                      !.errors = <<[msg |-> "Colunas obrigatorias ausentes",
                                                    cols |-> missing_columns]>>]
                   ELSE start
             invalid_geoms == {k \in DOMAIN g.rows : ~g.rows[k].geometry.is_valid}
             r2 == IF invalid_geoms # {}
                   THEN AppendWarning(r1, [msg |-> "geometrias invalidas",
                                           n |-> Cardinality(invalid_geoms)])
                   ELSE r1
             classes == {g.rows[k].zcl_classe : k \in DOMAIN g.rows}
             invalid_classes == classes \ valid_classes
             r3 == IF invalid_classes # {}
                   THEN AppendWarning(r2, [msg |-> "Classes LCZ nao reconhecidas",
                                           n |-> Cardinality(invalid_classes)])
                   ELSE r2
             r4 == IF g.crs = "None"
                   THEN AppendWarning(r3, [msg |-> "Sistema de coordenadas nao definido",
                                           n |-> 0])
                   ELSE r3
             r5 == [r4 EXCEPT !.info =
                      <<[msg |-> "Total de registros", n |-> Len(g.rows)],
                        [msg |-> "Classes LCZ presentes", n |-> Cardinality(classes)]>>]
             r6 == IF "area_km2" \in g.columns
                   THEN [r5 EXCEPT !.info =
                            Append(@, [msg |-> "Area total",
                                       n |-> SumSeq([k \in DOMAIN g.rows |->
                                                        g.rows[k].area_km2])])]
                   ELSE r5
         IN IF "geometry" \notin g.columns
            THEN [validation_result |-> r1, raised |-> Exc("AttributeError", <<"geometry">>)]
            ELSE IF "zcl_classe" \notin g.columns
            THEN [validation_result |-> r2, raised |-> Exc("KeyError", <<"zcl_classe">>)]
            ELSE [validation_result |-> r6, raised |-> NoExc]

\* faulty variant: no except clause, the exception leaves the function
ExceptNothing(t) == t

\* except Exception as e: valid = False and one more error; the function then
\* returns validation_result
ExceptException(t) ==
    IF t.raised = NoExc THEN t
    ELSE [validation_result |->
             [t.validation_result EXCEPT
                 !.valid = FALSE,
                 !.errors = Append(@, [msg |-> "Erro durante validacao",
                                       cols |-> {t.raised.cls}])],
          raised |-> NoExc]

validate_lcz_data(g) == ExceptException(TryValidate(g))

-----------------------------------------------------------------------------
(* The table operations as a state machine *)

\* areas of the polygons of the inputs, in area units: 4 is below half of
\* 0.001 km2, 10 is 0.001 km2
AreaVals == {0, 4, 10}

SeqsUpTo(S, n) == UNION {[1..k -> S] : k \in 0..n}

\* the coordinate systems of the inputs: declared CRS and actual coordinates
Frames ==
    {<<"EPSG:4326", "EPSG:4326">>, <<"ESRI:54009", "ESRI:54009">>,
     <<"EPSG:3857", "EPSG:3857">>, <<"None", "EPSG:4326">>}

\* inputs that vary the areas: the area is in the area_km2 column when the
\* frame has one and in the geometry otherwise
AreaInputs ==
    LET Syms == {"LCZ 2", "LCZ 10", "NaN"}
        WithColumn == [zcl_classe : Syms,
                       geometry : {[m2 |-> 10, is_valid |-> TRUE]},
                       area_km2 : AreaVals]
        Without == [zcl_classe : Syms,
                    geometry : [m2 : AreaVals, is_valid : {TRUE}],
                    area_km2 : {0}]
    IN {GeoDataFrame(c[1], c[2], {"lcz", "geometry", "zcl_classe", "area_km2"}, rows) :
           c \in {f \in Frames : f[2] = "EPSG:4326"},
           rows \in SeqsUpTo(WithColumn, MaxPolys)}
       \cup
       {GeoDataFrame(c[1], c[2], {"lcz", "geometry", "zcl_classe"}, rows) :
           c \in Frames, rows \in SeqsUpTo(Without, MaxPolys)}

\* inputs that vary the validity of the geometries, the symbols and the columns
ValidationInputs ==
    LET Rows == [zcl_classe : {"LCZ 2", "LCZ X", "NaN"},
                 geometry : [m2 : {10}, is_valid : BOOLEAN],
                 area_km2 : {10}]
    IN {GeoDataFrame(c[1], c[2], cols, rows) :
           c \in {f \in Frames : f[2] = "EPSG:4326"},
           cols \in {{"lcz", "geometry", "zcl_classe", "area_km2"},
                     {"lcz", "geometry", "zcl_classe"},
                     {"lcz", "geometry"}, {"lcz", "zcl_classe"}},
           rows \in SeqsUpTo(Rows, MaxPolys)}

InitTable ==
    /\ data = np_full(1, 1, NODATA)
    /\ input = data
    /\ factor = 1
    /\ transform = NorthUp
    /\ aggregated = "none"
    /\ new_transform = "none"
    /\ result = "none"
    /\ prev = <<>>
    /\ pc = "ready"
    /\ active = {}
    /\ get = [p \in {1, 2} |-> <<>>]
    /\ lcz_info = LCZ_INFO
    /\ gdf \in {NoGdf} \cup AreaInputs \cup ValidationInputs
    /\ quicksort \in {"kept", "reversed"}
    /\ ret = NoRet
    /\ error = NoExc
    /\ files = NoFiles
    /\ session = NoKeys
    /\ runs = <<>>
    /\ run = NoRun

\* enhanced_gdf = enhance_lcz_data(lcz_gdf) (explorar.py line 612): the caller
\* goes on with the enhanced frame
EnhanceLczData ==
    /\ ret.op = "none"
    /\ ~gdf.is_none
    /\ "geometry" \in gdf.columns
    /\ LET r == enhance_lcz_data(gdf)
       IN /\ gdf' = r.gdf
          /\ ret' = [op |-> "enhance_lcz_data", calls |-> 1, before |-> gdf,
                     measured |-> r.measured]
    /\ UNCHANGED <<aggVars, getVars, lcz_info, quicksort, envVars>>

\* a call of lcz_cal_area(gdf); a second call on the same frame follows a first
LczCalArea ==
    /\ \/ ret.op \in {"none", "enhance_lcz_data"}
       \/ ret.op = "lcz_cal_area" /\ ret.calls = 1
    /\ LET r == lcz_cal_area(gdf, quicksort)
       IN /\ gdf' = r.gdf
          /\ ret' = [op |-> "lcz_cal_area",
                     calls |-> IF ret.op = "lcz_cal_area" THEN 2 ELSE 1,
                     before |-> gdf,
                     first |-> IF ret.op = "lcz_cal_area" THEN ret.r ELSE r,
                     enhanced |-> IF ret.op = "lcz_cal_area" THEN ret.enhanced
                                  ELSE ret.op = "enhance_lcz_data",
                     r |-> r]
    /\ UNCHANGED <<aggVars, getVars, lcz_info, quicksort, envVars>>

\* a call of validate_lcz_data(gdf); a second call follows a first
ValidateLczData ==
    /\ \/ ret.op \in {"none", "enhance_lcz_data"}
       \/ ret.op = "validate_lcz_data" /\ ret.calls = 1
    /\ LET t == validate_lcz_data(gdf)
       IN ret' = [op |-> "validate_lcz_data",
                  calls |-> IF ret.op = "validate_lcz_data" THEN 2 ELSE 1,
                  before |-> gdf,
                  first |-> IF ret.op = "validate_lcz_data" THEN ret.validation_result
                            ELSE t.validation_result,
                  raised |-> t.raised, validation_result |-> t.validation_result]
    /\ UNCHANGED <<aggVars, getVars, lcz_info, gdf, quicksort, envVars>>

NextTable == EnhanceLczData \/ LczCalArea \/ ValidateLczData

SpecTable == InitTable /\ [][NextTable]_vars

-----------------------------------------------------------------------------
(* The session of the page: modules/explorar.py *)

\* how many events (ended runs, clicks) a session of the model goes through
MaxRuns == 2

\* the names typed by the user, as token sequences; " " is white space
RunNames == {<<>>, <<" ", "L">>, <<"Lyon">>, <<"Paris", " ">>}

\* str.strip(): white space removed at both ends
RECURSIVE strip(_)
strip(name) ==
    IF name = <<>> THEN <<>>
    ELSE IF Head(name) = " " THEN strip(Tail(name))
    ELSE IF name[Len(name)] = " " THEN strip(SubSeq(name, 1, Len(name) - 1))
    ELSE name

\* len() of a name of the model
TokenLen(tok) ==
    CASE tok = " " -> 1 [] tok = "L" -> 1 [] tok = "Lyon" -> 4 [] tok = "Paris" -> 5

StrLen(name) == SumSeq([k \in DOMAIN name |-> TokenLen(name[k])])

\* the grids lcz_get_map may return to the page: 2 x 2 and 1 x 2 rasters of
\* class 3 and nodata with at least one valid pixel
RunGrids ==
    {g \in [0..1 -> [0..1 -> {3, NODATA}]] : LenValid(g) > 0}
        \cup {g \in ClipGrids : LenValid(g) > 0}

\* the ways a call lcz_get_map(city) ends: a grid, the GeocodeError that
\* follows the last geocoding attempt, or what the except clauses of the
\* raster loop raise in the last attempt for an error of the open, of the
\* clip, or for the DataProcessingError of a clip without a valid pixel
GetOutcomes(city) ==
    LET frame == Called(TRUE, city, FALSE, "unset", np_full(1, 2, NODATA))
        geocode == [frame EXCEPT !.pc = "geocode",
                                 !.geocode_attempt = geocode_retries - 1]
        raster == [frame EXCEPT !.pc = "raster", !.attempt = max_retries - 1]
        caught == OpenErrors \cup MaskErrors
                     \cup {Exc("DataProcessingError", NoValidDataMsg(frame))}
    IN {[raised |-> NoExc, data |-> <<g>>] : g \in RunGrids}
       \cup {[raised |-> GeocodeFail(geocode, err).raised, data |-> <<>>] :
               err \in GeoErrors}
       \cup {[raised |-> Handle(raster, err).raised, data |-> <<>>] : err \in caught}

\* an exception of the libraries inside process_lcz_map or enhance_lcz_data
LibraryFault == Exc("ValueError", <<"Invalid", "input">>)

\* the frame process_lcz_map hands on: the joined rows in the raster's CRS
\* (EPSG:4326), a geometry of 10 area units per pixel
ProcessedFrame(rows) ==
    GeoDataFrame("EPSG:4326", "EPSG:4326", {"lcz", "geometry", "zcl_classe", "descricao"},
                 [k \in DOMAIN rows |->
                    [zcl_classe |-> rows[k].zcl_classe,
                     geometry |-> [m2 |-> 10 * Cardinality(rows[k].geometry),
                                   is_valid |-> TRUE],
                     area_km2 |-> 0]])

current_version == "1.2.0"

\* clear_lcz_session_data(): the listed keys set to None, then the flags and
\* messages reset
clear_lcz_session_data(s) ==
    [s EXCEPT !.lcz_data = <<>>, !.lcz_raster_data = <<>>, !.lcz_city_name = <<>>,
              !.lcz_validation_result = <<>>,
              !.lcz_processing_success = FALSE,
              !.lcz_success_message = <<>>,
              !.lcz_error_message = <<>>]

\* validate_session_data(): data without a geometry attribute clear the session
validate_session_data(s) ==
    IF s.lcz_data # <<>> /\ "geometry" \notin s.lcz_data[1].columns
    THEN clear_lcz_session_data(s)
    ELSE s

\* init_session_state(): the schema version is recorded; a session of another
\* version is cleared; missing keys get their defaults; the data are validated
init_session_state(s) ==
    validate_session_data(
        IF s.lcz_schema_version = "absent"
        THEN [s EXCEPT !.lcz_schema_version = current_version]
        ELSE IF s.lcz_schema_version # current_version
             THEN [clear_lcz_session_data(s) EXCEPT !.lcz_schema_version = current_version]
             ELSE s)

\* save_lcz_data_to_session(data, profile, city_name, enhanced_gdf)
save_lcz_data_to_session(s, grid, city_name, enhanced_gdf) ==
    [session |->
        validate_session_data(
            [s EXCEPT !.lcz_raster_data = <<grid>>,
                      !.lcz_city_name = <<city_name>>,
                      !.lcz_data = <<enhanced_gdf>>,
                      !.lcz_processing_success = TRUE,
                      !.lcz_success_message =
                          <<"Mapa LCZ gerado com sucesso para">> \o city_name,
                      !.lcz_error_message = <<>>]),
     success |-> TRUE]

\* a session left by the page under an earlier schema version, holding the
\* map of Paris
OldSession ==
    LET grid == np_full(2, 2, 3)
        frame == enhance_lcz_data(
                     ProcessedFrame(process_lcz_map(grid, NorthUp, 2).result)).gdf
    IN save_lcz_data_to_session([NoKeys EXCEPT !.lcz_schema_version = "1.1.0"],
                                grid, <<"Paris">>, frame).session

\* the page before a script run: a new browser session, or one kept from an
\* earlier version of the page
InitSession ==
    /\ data = np_full(1, 1, NODATA)
    /\ input = data
    /\ factor = 1
    /\ transform = NorthUp
    /\ aggregated = "none"
    /\ new_transform = "none"
    /\ result = "none"
    /\ prev = <<>>
    /\ pc = "ready"
    /\ active = {}
    /\ get = [p \in {1, 2} |-> <<>>]
    /\ lcz_info = LCZ_INFO
    /\ gdf = NoGdf
    /\ quicksort = "kept"
    /\ ret = NoRet
    /\ error = NoExc
    /\ files = NoFiles
    /\ session \in {NoKeys, OldSession}
    /\ runs = <<>>
    /\ run = NoRun

otherVars == <<aggVars, getVars, lcz_info, tabVars, error, files>>

\* an event of the log: a click, or a run of processar_mapa_lcz that ended;
\* failed_at names the stage whose exception ended the run ("none" when
\* st.rerun() was reached, "stopped" when the script was stopped), raised the
\* class of the exception that left the function, saved whether
\* save_lcz_data_to_session had returned
Click(op) ==
    [op |-> op, city |-> <<>>, failed_at |-> "none", raised |-> "none", saved |-> FALSE]

RunEnded(stage, cls, saved) ==
    [op |-> "processar_mapa_lcz", city |-> run.cidade_nome, failed_at |-> stage,
     raised |-> cls, saved |-> saved]

\* renderizar_pagina(): a script run starts with init_session_state()
InitSessionState ==
    /\ run.pc = "idle"
    /\ session' = init_session_state(session)
    /\ run' = [NoRun EXCEPT !.pc = "page"]
    /\ UNCHANGED <<otherVars, runs>>

\* the script run ends without a button pressed
ScriptEnds ==
    /\ run.pc = "page"
    /\ run' = NoRun
    /\ UNCHANGED <<otherVars, session, runs>>

\* the button "Limpar Erro", shown while there is an error message
LimparErro ==
    /\ run.pc = "page"
    /\ Len(runs) < MaxRuns
    /\ session.lcz_error_message # <<>>
    /\ session' = [session EXCEPT !.lcz_error_message = <<>>]
    /\ runs' = Append(runs, Click("limpar_erro"))
    /\ run' = NoRun
    /\ UNCHANGED otherVars

\* the button "Limpar Dados": clear_lcz_session_data(); st.rerun()
LimparDados ==
    /\ run.pc = "page"
    /\ Len(runs) < MaxRuns
    /\ session' = clear_lcz_session_data(session)
    /\ runs' = Append(runs, Click("limpar_dados"))
    /\ run' = NoRun
    /\ UNCHANGED otherVars

\* the button "Reiniciar Modulo": clear_lcz_session_data(); st.rerun()
ReiniciarModulo ==
    /\ run.pc = "page"
    /\ Len(runs) < MaxRuns
    /\ session' = clear_lcz_session_data(session)
    /\ runs' = Append(runs, Click("reiniciar_modulo"))
    /\ run' = NoRun
    /\ UNCHANGED otherVars

\* the button "Limpar Sessao Debug" of the debug panel: clear_lcz_session_data()
LimparSessaoDebug ==
    /\ run.pc = "page"
    /\ Len(runs) < MaxRuns
    /\ session' = clear_lcz_session_data(session)
    /\ runs' = Append(runs, Click("limpar_sessao_debug"))
    /\ run' = NoRun
    /\ UNCHANGED otherVars

\* the button "Limpar Sessao Completa", shown after an error of the page:
\* every lcz_ key deleted; st.rerun()
LimparSessaoCompleta ==
    /\ run.pc = "page"
    /\ Len(runs) < MaxRuns
    /\ session' = NoKeys
    /\ runs' = Append(runs, Click("limpar_sessao_completa"))
    /\ run' = NoRun
    /\ UNCHANGED otherVars

\* "Gerar Mapa LCZ" with a name typed (if gerar_mapa and cidade_nome):
\* processar_mapa_lcz(cidade_nome) starts with clear_lcz_session_data()
GerarMapa ==
    /\ run.pc = "page"
    /\ Len(runs) < MaxRuns
    /\ \E cidade_nome \in RunNames :
          /\ cidade_nome # <<>>
          /\ run' = [NoRun EXCEPT !.pc = "input", !.cidade_nome = cidade_nome]
    /\ session' = clear_lcz_session_data(session)
    /\ UNCHANGED <<otherVars, runs>>

\* str(e) of the exception a run ends with
StrOf(x) == x.msg

\* a stage raises x after the import of the exception classes: the exception
\* reaches the except clause of its class
RunFailed(stage, x) ==
    /\ run' = [run EXCEPT !.pc = "except", !.e = x, !.failed_at = stage]
    /\ UNCHANGED <<session, runs>>

\* an except clause of processar_mapa_lcz runs to its end: after the st.*
\* calls that show the error, lcz_error_message = str(e); the finally block
\* writes no key and the function returns
RunExcept ==
    /\ run.pc = "except"
    /\ session' = [session EXCEPT !.lcz_error_message = StrOf(run.e)]
    /\ runs' = Append(runs, RunEnded(run.failed_at, "none", FALSE))
    /\ run' = NoRun
    /\ UNCHANGED otherVars

\* stage 1: a name shorter than 2 characters raises ValueError; the names
\* GeocodeError and DataProcessingError are local to the function (import of
\* line 598) and not bound yet, so evaluating "except GeocodeError" raises
\* UnboundLocalError, which leaves the function: no except clause runs
RunValidateInput ==
    /\ run.pc = "input"
    /\ IF run.cidade_nome = <<>> \/ StrLen(strip(run.cidade_nome)) < 2
       THEN /\ runs' = Append(runs, RunEnded("input validation", "UnboundLocalError", FALSE))
            /\ run' = NoRun
            /\ UNCHANGED session
       ELSE /\ run' = [run EXCEPT !.pc = "acquire", !.cidade_nome = strip(@)]
            /\ UNCHANGED <<session, runs>>
    /\ UNCHANGED otherVars

\* data, profile = lcz_get_map(cidade_nome)
RunGetMap ==
    /\ run.pc = "acquire"
    /\ \E out \in GetOutcomes(run.cidade_nome) :
          IF out.raised # NoExc
          THEN RunFailed("acquisition", out.raised)
          ELSE /\ run' = [run EXCEPT !.pc = "process", !.data = out.data]
               /\ UNCHANGED <<session, runs>>
    /\ UNCHANGED otherVars

\* lcz_gdf = process_lcz_map(data, profile); the libraries may raise (as they
\* may for an aggregated raster without pixels) or hand on the frame, which
\* has no rows when the raster has no pixels
RunProcessLczMap ==
    /\ run.pc = "process"
    /\ LET processed == process_lcz_map(run.data[1], NorthUp, 2)
       IN \E raises \in BOOLEAN :
             IF raises
             THEN RunFailed("vector processing", LibraryFault)
             ELSE /\ run' = [run EXCEPT !.pc = "enhance",
                                        !.lcz_gdf = <<ProcessedFrame(processed.result)>>]
                  /\ UNCHANGED <<session, runs>>
    /\ UNCHANGED otherVars

\* enhanced_gdf = enhance_lcz_data(lcz_gdf)
RunEnhance ==
    /\ run.pc = "enhance"
    /\ \E raises \in BOOLEAN :
          IF raises
          THEN RunFailed("enhancement", LibraryFault)
          ELSE /\ run' = [run EXCEPT !.pc = "validate",
                                     !.enhanced_gdf =
                                         <<enhance_lcz_data(run.lcz_gdf[1]).gdf>>]
               /\ UNCHANGED <<session, runs>>
    /\ UNCHANGED otherVars

\* validation_result = validate_lcz_data(enhanced_gdf); invalid data raise
\* DataProcessingError
RunValidateData ==
    /\ run.pc = "validate"
    /\ LET validation_result == validate_lcz_data(run.enhanced_gdf[1]).validation_result
       IN IF ~validation_result.valid
          THEN RunFailed("data validation",
                   Exc("DataProcessingError",
                       <<"Dados invalidos:">> \o
                           [k \in DOMAIN validation_result.errors |->
                               validation_result.errors[k].msg]))
          ELSE /\ run' = [run EXCEPT !.pc = "save",
                                     !.validation_result = <<validation_result>>]
               /\ UNCHANGED <<session, runs>>
    /\ UNCHANGED otherVars

\* success = save_lcz_data_to_session(...); if not success: raise Exception
RunSave ==
    /\ run.pc = "save"
    /\ LET saved == save_lcz_data_to_session(session, run.data[1], run.cidade_nome,
                                             run.enhanced_gdf[1])
       IN IF ~saved.success
          THEN /\ session' = saved.session
               /\ run' = [run EXCEPT !.pc = "except", !.failed_at = "saving",
                              !.e = Exc("Exception",
                                        <<"Falha ao salvar dados na sessao">>)]
               /\ UNCHANGED runs
          ELSE /\ session' = saved.session
               /\ run' = [run EXCEPT !.pc = "saved"]
               /\ UNCHANGED runs
    /\ UNCHANGED otherVars

\* st.session_state.lcz_validation_result = validation_result
RunSetValidationResult ==
    /\ run.pc = "saved"
    /\ session' = [session EXCEPT !.lcz_validation_result = run.validation_result]
    /\ run' = [run EXCEPT !.pc = "finish"]
    /\ UNCHANGED <<otherVars, runs>>

\* the metrics, time.sleep(1) and st.rerun(), whose exception no clause catches
RunRerun ==
    /\ run.pc = "finish"
    /\ runs' = Append(runs, RunEnded("none", "none", TRUE))
    /\ run' = NoRun
    /\ UNCHANGED <<otherVars, session>>

\* the user acts while the run is in progress and the rerun request is
\* delivered at an st.* call whose exception no clause catches: one before the
\* try statement (progress bar and placeholders made), one after the import
\* of the exception classes (progress bar, status text, metrics), none of
\* which lies between the save and the assignment of lcz_validation_result,
\* or one inside an except clause, where the calls that show the error come
\* before the assignment of lcz_error_message. The script is stopped there;
\* a run stopped inside an except clause has failed at its stage and leaves
\* no message
ScriptStopped ==
    /\ run.pc \in {"input", "process", "enhance", "validate", "save", "finish", "except"}
    /\ runs' = Append(runs, RunEnded(IF run.pc = "except" THEN run.failed_at ELSE "stopped",
                                     "none", run.pc = "finish"))
    /\ run' = NoRun
    /\ UNCHANGED <<otherVars, session>>

\* the rerun request is delivered at an st.* call inside the try statement
\* and before the import of GeocodeError (status text and progress of the
\* validation, geocoding and download stages): the exception reaches the
\* clause "except GeocodeError", whose name is a local not yet bound, and
\* the UnboundLocalError raised there is caught by renderizar_pagina, which
\* shows it and lets the script run to its end; no session key is written
RerunBeforeImport ==
    /\ run.pc \in {"input", "acquire"}
    /\ runs' = Append(runs, RunEnded("stopped", "UnboundLocalError", FALSE))
    /\ run' = NoRun
    /\ UNCHANGED <<otherVars, session>>

NextSession ==
    \/ InitSessionState \/ ScriptEnds
    \/ LimparErro \/ LimparDados \/ ReiniciarModulo \/ LimparSessaoDebug
    \/ LimparSessaoCompleta
    \/ GerarMapa \/ RunValidateInput \/ RunGetMap \/ RunProcessLczMap \/ RunEnhance
    \/ RunValidateData \/ RunSave \/ RunSetValidationResult \/ RunRerun
    \/ RunExcept \/ ScriptStopped \/ RerunBeforeImport

SpecSession == InitSession /\ [][NextSession]_vars

-----
(* Properties of aggregate_raster, stated on the input of the call (input)  *)
(* and on what it returned (aggregated, new_transform)                      *)

Returned == pc \in {"aggregated", "processed"}

OutCells == {c \in (DOMAIN aggregated) \X (0..MaxCells) : c[2] \in DOMAIN aggregated[c[1]]}

\* the pixels of the factor x factor block of output cell (i, j)
BlockOf(i, j) ==
    {p \in AllCells(input) : /\ i * factor <= p[1] /\ p[1] < (i + 1) * factor
                             /\ j * factor <= p[2] /\ p[2] < (j + 1) * factor}

Occurrences(g, cells, v) == Cardinality({p \in cells : g[p[1]][p[2]] = v})

Votes(g, cells) == {g[p[1]][p[2]] : p \in cells} \ {NODATA}

\* C1: every output cell is the most frequent non-nodata value of its block,
\* the lowest class code winning a tie; nodata pixels take no part in the vote.
C1_MajorityLowestCode ==
    Returned =>
        \A c \in OutCells :
            LET B == BlockOf(c[1], c[2])
                v == aggregated[c[1]][c[2]]
            IN Votes(input, B) # {} =>
                 /\ v \in Votes(input, B)
                 /\ \A u \in Votes(input, B) :
                       \/ Occurrences(input, B, v) > Occurrences(input, B, u)
                       \/ /\ Occurrences(input, B, v) = Occurrences(input, B, u)
                          /\ v <= u

\* a block where 3 and 5 tie and nodata is the most frequent value gives 3
C1_Witness ==
    /\ Returned
    /\ factor = 2
    /\ \E c \in OutCells :
         LET B == BlockOf(c[1], c[2])
         IN /\ Occurrences(input, B, 3) = 1
            /\ Occurrences(input, B, 5) = 1
            /\ Occurrences(input, B, NODATA) = 2
            /\ aggregated[c[1]][c[2]] = 3

\* C2: an output cell whose block holds nodata pixels only is nodata.
C2_AllNodataBlock ==
    Returned =>
        \A c \in OutCells :
            Votes(input, BlockOf(c[1], c[2])) = {} => aggregated[c[1]][c[2]] = NODATA

\* an all-nodata block that follows a block with a class, and stays nodata
C2_Witness ==
    /\ Returned
    /\ \E c \in OutCells :
         /\ c[2] > 0
         /\ aggregated[c[1]][c[2] - 1] # NODATA
         /\ BlockOf(c[1], c[2]) # {}
         /\ Votes(input, BlockOf(c[1], c[2])) = {}
         /\ aggregated[c[1]][c[2]] = NODATA

\* the pixels on which two rasters of the same shape differ
Diff(g1, g2) == {p \in AllCells(g1) : g1[p[1]][p[2]] # g2[p[1]][p[2]]}

\* the remainder pixels: rows >= f*floor(h/f) or columns >= f*floor(w/f)
Remainder ==
    {p \in AllCells(input) : \/ p[1] >= factor * (Height(input) \div factor)
                             \/ p[2] >= factor * (Width(input) \div factor)}

\* C3: the output has floor(h/f) rows of floor(w/f) columns; the blocks read
\* for distinct output cells are disjoint, each holds exactly f*f pixels of the
\* input (no padding), none holds a remainder pixel, and a change of remainder
\* pixels between two calls changes no output cell.
C3_TruncatedDisjointBlocks ==
    Returned =>
        /\ Height(aggregated) = Height(input) \div factor
        /\ \A i \in DOMAIN aggregated :
               Cardinality(DOMAIN aggregated[i]) = Width(input) \div factor
        /\ \A c \in OutCells : \A d \in OutCells :
               c # d => BlockCells(input, c[1], c[2], factor)
                          \cap BlockCells(input, d[1], d[2], factor) = {}
        /\ \A c \in OutCells :
               /\ BlockCells(input, c[1], c[2], factor) = BlockOf(c[1], c[2])
               /\ Cardinality(BlockCells(input, c[1], c[2], factor)) = factor * factor
               /\ BlockCells(input, c[1], c[2], factor) \cap Remainder = {}
        /\ \A k \in DOMAIN prev :
               Diff(prev[k].input, input) \subseteq Remainder
                   => aggregated = prev[k].aggregated

\* two calls whose inputs differ in a remainder pixel only
C3_Witness ==
    /\ Returned
    /\ factor = 2
    /\ OutCells # {}
    /\ \E k \in DOMAIN prev :
         /\ Diff(prev[k].input, input) # {}
         /\ Diff(prev[k].input, input) \subseteq Remainder
         /\ aggregated = prev[k].aggregated

\* C4: the call leaves the caller's array as it was; a second call on the same
\* grid returns the same grid and transform; an output cell is the same in two
\* calls whenever its own block has the same contents in both, whatever the
\* other blocks hold (so the order in which blocks are processed cannot matter).
C4_DeterministicNoInterference ==
    Returned =>
        /\ data = input
        /\ \A k \in DOMAIN prev :
              /\ prev[k].input = input =>
                    /\ aggregated = prev[k].aggregated
                    /\ new_transform = prev[k].new_transform
              /\ \A c \in OutCells :
                    Diff(prev[k].input, input) \cap BlockOf(c[1], c[2]) = {}
                        => aggregated[c[1]][c[2]] = prev[k].aggregated[c[1]][c[2]]

\* a second call whose input differs inside another block: this cell is the same
C4_Witness ==
    /\ Returned
    /\ data = input
    /\ \E k \in DOMAIN prev : \E c \in OutCells : \E d \in OutCells :
         /\ c # d
         /\ Diff(prev[k].input, input) # {}
         /\ Diff(prev[k].input, input) \subseteq BlockOf(d[1], d[2])
         /\ aggregated[d[1]][d[2]] # prev[k].aggregated[d[1]][d[2]]
         /\ aggregated[c[1]][c[2]] = prev[k].aggregated[c[1]][c[2]]

\* C5: the returned transform has the pixel-size and rotation terms of the
\* input transform multiplied by factor and the same origin; factor 1 keeps it.
C5_TransformScaled ==
    Returned =>
        /\ new_transform.a = transform.a * factor
        /\ new_transform.b = transform.b * factor
        /\ new_transform.d = transform.d * factor
        /\ new_transform.e = transform.e * factor
        /\ new_transform.c = transform.c
        /\ new_transform.f = transform.f
        /\ (factor = 1 => new_transform = transform)

\* a rotated transform with a non-zero origin, scaled by 2
C5_Witness ==
    /\ Returned
    /\ factor = 2
    /\ transform.b # 0
    /\ transform.d # 0
    /\ transform.c # 0
    /\ transform.f # 0
    /\ new_transform.a = 2 * transform.a
    /\ new_transform.c = transform.c

\* C10: process_lcz_map returns at most one row per class code, and exactly one
\* row for every class code present in the aggregated grid.
C10_OneRowPerClass ==
    pc = "processed" =>
        /\ \A k \in DOMAIN result : \A m \in DOMAIN result :
               k # m => result[k].lcz # result[m].lcz
        /\ \A v \in Votes(aggregated, AllCells(aggregated)) :
               Cardinality({k \in DOMAIN result : result[k].lcz = v}) = 1
        /\ \A k \in DOMAIN result :
               result[k].lcz \in Votes(aggregated, AllCells(aggregated))

\* a class with two regions that do not touch, in one row
C10_Witness ==
    /\ pc = "processed"
    /\ \E p \in AllCells(aggregated) : \E q \in AllCells(aggregated) :
         /\ aggregated[p[1]][p[2]] = 3
         /\ aggregated[q[1]][q[2]] = 3
         /\ q \notin Grow(aggregated, {p})
    /\ Cardinality({k \in DOMAIN result : result[k].lcz = 3}) = 1

-----------------------------------------------------------------------------
(* Properties of lcz_get_map *)

\* sub occurs in s as a run of consecutive tokens
IsInfix(sub, s) ==
    \E k \in 0..(Len(s) - Len(sub)) : \A n \in DOMAIN sub : s[k + n] = sub[n]

EndsWith(s, sub) ==
    /\ Len(sub) <= Len(s)
    /\ \A n \in DOMAIN sub : s[Len(s) - Len(sub) + n] = sub[n]

Finished(g) == g.pc \in {"raised", "returned"}

\* an access attempt of the call has succeeded: the remote raster was opened
\* and clipped and the clip holds valid data; the clip is being saved or has
\* been returned
Succeeded(g) == g.pc \in {"saving", "writing", "global", "copying", "written", "returned"}

\* C6: when every geocoding attempt fails there are exactly 3 attempts, then
\* GeocodeError is raised with the last attempt's error and the suggestions in
\* its message, and the raster was never opened; after a successful attempt no
\* further geocoding attempt is made.
C6_Inv ==
    \A p \in active :
        LET g == get[p]
        IN /\ Len(g.queries) <= geocode_retries
           /\ (g.has_city /\ Len(g.geo_failed) = geocode_retries) =>
                 /\ g.pc = "raised"
                 /\ g.raised.cls = "GeocodeError"
                 /\ EndsWith(g.raised.msg, g.geo_failed[geocode_retries].msg)
                 /\ IsInfix(g.city \o <<",", "Brazil">>, g.raised.msg)
                 /\ IsInfix(g.city \o <<"city">>, g.raised.msg)
                 /\ g.opens = 0
           /\ (g.has_city /\ Len(g.geo_failed) < geocode_retries) =>
                 g.raised.cls # "GeocodeError"
           /\ (g.opens > 0 /\ g.has_city) =>
                 /\ g.geocode_success
                 /\ Len(g.queries) = Len(g.geo_failed) + 1

C6_GeocodeRetries ==
    /\ []C6_Inv
    /\ [][\A p \in active :
             (get[p].geocode_success \/ Finished(get[p]))
                 => /\ get'[p].queries = get[p].queries
                    /\ get'[p].geo_failed = get[p].geo_failed]_vars

\* three failed attempts, the last with another error than the one before
C6_Witness ==
    \E p \in active :
        /\ get[p].pc = "raised"
        /\ get[p].raised.cls = "GeocodeError"
        /\ Len(get[p].geo_failed) = 3
        /\ get[p].geo_failed[2] # get[p].geo_failed[3]
        /\ get[p].opens = 0

\* a transient network failure: one of the network exception classes of
\* requests, urllib3 and rasterio (other than a 404 / missing-file report), or
\* an error of another class whose message reports a timeout
Transient(err) ==
    /\ ~Contains(err.msg, "404")
    /\ ~Contains(err.msg, "No such file or directory")
    /\ \/ err.cls \in NetworkClasses
       \/ err.cls = "Exception" /\ Contains(Lower(err.msg), "timeout")

AllTransient(g) == \A k \in DOMAIN g.caught : Transient(g.caught[k])

\* what C7 says of every state of a call
C7_Inv ==
    \A p \in active :
        LET g == get[p]
        IN /\ g.opens <= max_retries
           /\ (AllTransient(g) /\ Len(g.caught) = max_retries) =>
                 /\ g.pc = "raised"
                 /\ g.raised.cls = "ConnectionError"
                 /\ g.opens = max_retries
                 /\ g.returned = <<>>
           /\ (AllTransient(g) /\ Len(g.caught) < max_retries /\ g.caught # <<>>) =>
                 /\ g.pc = "raster" \/ Succeeded(g)
                 /\ g.opens >= Len(g.caught)
           /\ Succeeded(g) =>
                 /\ g.data = <<g.coverage>>
                 /\ g.opens = Len(g.caught) + 1
           /\ g.pc = "returned" =>
                 /\ g.returned = <<g.coverage>>
                 /\ g.raised = NoExc
           /\ g.pc # "returned" => g.returned = <<>>

\* C7 as claimed: when every attempt of the raster stage fails with a
\* transient network failure there are exactly 5 attempts and then
\* ConnectionError; there is never a 6th attempt and no grid is returned; once
\* an attempt has succeeded the call makes no further attempt and does not
\* fail, it goes on to return the clipped grid; a call that has ended stays
\* as it is.
C7_RasterRetries ==
    /\ []C7_Inv
    /\ [][\A p \in active : Finished(get[p]) => get'[p] = get[p]]_vars
    /\ [][\A p \in active :
             Succeeded(get[p]) =>
                 /\ get'[p].opens = get[p].opens
                 /\ Succeeded(get'[p])]_vars


\* C8 as claimed: whenever the clip is all nodata the call fails with
\* DataProcessingError, for every place name and every ROI, and a grid that is
\* returned holds a non-nodata pixel.
C8_AllNodataIsDataProcessingError ==
    \A p \in active :
        LET g == get[p]
        IN /\ (Finished(g) /\ g.clips # <<>> /\ LenValid(g.coverage) = 0) =>
                 /\ g.pc = "raised"
                 /\ g.raised.cls = "DataProcessingError"
           /\ \A k \in DOMAIN g.returned : LenValid(g.returned[k]) > 0

\* C9: every clip is made with a boundary in the raster's CRS; a boundary
\* resolved in another CRS is reprojected once, before the first clip, and a
\* boundary in the raster's CRS is never reprojected, on any attempt.
C9_ClipInRasterCRS ==
    \A p \in active :
        LET g == get[p]
        IN /\ \A k \in DOMAIN g.clips : g.clips[k] = RASTER_CRS
           /\ g.reprojections <= 1
           /\ g.resolved_crs = RASTER_CRS => g.reprojections = 0
           /\ (g.clips # <<>> /\ g.resolved_crs # RASTER_CRS) => g.reprojections = 1
           /\ g.reprojections = 1 => g.study_crs = RASTER_CRS

\* a boundary given in EPSG:3857: reprojected in an attempt whose clip failed,
\* then clipped in a later attempt without a second reprojection
C9_Witness ==
    \E p \in active :
        /\ get[p].resolved_crs = "EPSG:3857"
        /\ get[p].caught # <<>>
        /\ get[p].caught[1] = RioRead
        /\ get[p].opens >= 2
        /\ get[p].clips = <<RASTER_CRS>>
        /\ get[p].reprojections = 1

-----------------------------------------------------------------------------
(* Catalog join of process_lcz_map *)

\* the class codes of the aggregated grid outside the nodata mask
CodesOf(g) == {g[p[1]][p[2]] : p \in {q \in AllCells(g) : g[q[1]][q[2]] # NODATA}}

\* the rows of the joined table that carry class code v
RowsOf(v) == {k \in DOMAIN result : result[k].lcz = v}

\* C11: when process_lcz_map has returned, every class code of the aggregated
\* grid that has no catalog row (outside 1..17, other than nodata) has exactly
\* one row in the result, and the symbol and descriptive fields of that row
\* are absent; the join neither drops the polygon nor fails.
C11_UncataloguedKept ==
    pc = "processed" =>
        \A v \in CodesOf(aggregated) \ (1..17) :
            /\ Cardinality(RowsOf(v)) = 1
            /\ \A k \in RowsOf(v) :
                  /\ result[k].zcl_classe = "NaN"
                  /\ result[k].descricao = "NaN"
                  /\ result[k].geometry # {}

C11_Witness ==
    /\ pc = "processed"
    /\ \E k \in DOMAIN result : result[k].lcz = 18 /\ result[k].zcl_classe = "NaN"
    /\ \E k \in DOMAIN result : result[k].lcz = 3 /\ result[k].zcl_classe = "LCZ 3"

-----------------------------------------------------------------------------
(* Area measurement and the area table of lcz_cal_area *)

\* a coordinate system in which plane area is ground area
EqualArea(coords) == coords = "ESRI:54009"

\* lcz_cal_area was the last operation and returned its result
CalReturned == ret.op = "lcz_cal_area" /\ ret.r.raised = NoExc

\* C12: whenever enhance_lcz_data or lcz_cal_area has computed area_km2, the
\* coordinates in which the polygons were measured are those of an equal-area
\* projection.
C12_AreaMeasuredEqualArea ==
    /\ ret.op = "enhance_lcz_data" => EqualArea(ret.measured)
    /\ (ret.op = "lcz_cal_area" /\ ret.r.measured # "none") => EqualArea(ret.r.measured)

\* C13: in every table lcz_cal_area returns, the percentages are numbers and
\* their sum is within 0.1 of 100 (10 hundredths of 10000).
C13_PercentagesClose ==
    CalReturned =>
        LET st == ret.r.stats
            total == SumSeq([n \in DOMAIN st |-> st[n].percentual.val])
        IN /\ \A n \in DOMAIN st : ~st[n].percentual.nan
           /\ total >= 10000 - 10
           /\ total <= 10000 + 10

\* C14: lcz_cal_area never returns a result whose grand total area is zero:
\* a zero total is reported as an error and no percentage is NaN.
C14_ZeroTotalIsError ==
    CalReturned =>
        /\ ret.r.summary.total_area_km2 # 0
        /\ ~ret.r.summary.percentual_classe_dominante.nan

\* position of a symbol in the catalog
CatalogIndex(sym) == CHOOSE k \in 1..17 : LCZ_SYMBOLS[k] = sym

\* C15: the rows of the returned table are in non-increasing order of total
\* area, and two catalog classes of equal total area appear in catalog order.
C15_SortedCatalogTies ==
    CalReturned =>
        LET st == ret.r.stats
        IN \A i, j \in DOMAIN st :
              i < j =>
                /\ st[i].area_total_km2 >= st[j].area_total_km2
                /\ (/\ st[i].area_total_km2 = st[j].area_total_km2
                    /\ st[i].zcl_classe \in valid_classes
                    /\ st[j].zcl_classe \in valid_classes)
                   => CatalogIndex(st[i].zcl_classe) < CatalogIndex(st[j].zcl_classe)

\* C16: in every result lcz_cal_area returns, the dominant class of the
\* summary names a row whose total area is the maximum of the table, the
\* dominant area and share of the summary are that row's, and the number of
\* classes is the number of rows.
C16_SummaryDominant ==
    CalReturned =>
        LET st == ret.r.stats
            sm == ret.r.summary
        IN /\ sm.num_classes = Len(st)
           /\ \E n \in DOMAIN st :
                 /\ st[n].zcl_classe = sm.classe_dominante
                 /\ \A m \in DOMAIN st : st[m].area_total_km2 <= st[n].area_total_km2
                 /\ sm.area_classe_dominante_km2 = st[n].area_total_km2
                 /\ sm.percentual_classe_dominante = st[n].percentual

C16_Witness ==
    /\ CalReturned
    /\ Len(ret.r.stats) = 2
    /\ ret.r.stats[1].area_total_km2 > ret.r.stats[2].area_total_km2
    /\ ret.r.stats[2].area_total_km2 > 0
    /\ ret.r.summary.classe_dominante = "LCZ 2"

\* C17: a call of lcz_cal_area leaves the caller's polygon set as it was (no
\* area_km2 column added, no reprojection), and a second call on the same
\* polygon set returns what the first returned.
C17_IdempotentInputUntouched ==
    ret.op = "lcz_cal_area" =>
        /\ gdf = ret.before
        /\ ret.calls = 2 => ret.r = ret.first

C17_Witness ==
    /\ ret.op = "lcz_cal_area"
    /\ ret.calls = 2
    /\ ret.r.raised = NoExc
    /\ ret.r.measured = "ESRI:54009"
    /\ gdf.crs = "EPSG:4326"
    /\ "area_km2" \notin gdf.columns

-----------------------------------------------------------------------------
(* validate_lcz_data *)

\* C18: validate_lcz_data raises nothing, whatever the input, and for None or
\* an empty polygon set it returns valid = false with at least one error.
C18_ValidateNeverRaises ==
    ret.op = "validate_lcz_data" =>
        /\ ret.raised = NoExc
        /\ (ret.before.is_none \/ Len(ret.before.rows) = 0) =>
              /\ ~ret.validation_result.valid
              /\ ret.validation_result.errors # <<>>

C18_Witness ==
    /\ ret.op = "validate_lcz_data"
    /\ ~ret.before.is_none
    /\ Len(ret.before.rows) > 0
    /\ "geometry" \notin ret.before.columns
    /\ ~ret.validation_result.valid
    /\ Len(ret.validation_result.errors) = 2

\* C19: for a non-empty polygon set that has the columns zcl_classe and
\* geometry, validate_lcz_data returns valid = true and no error, whatever
\* the invalid geometries, unrecognised or absent symbols and undefined CRS,
\* which only add warnings.
C19_WarningsDoNotBlock ==
    (/\ ret.op = "validate_lcz_data"
     /\ ~ret.before.is_none
     /\ Len(ret.before.rows) > 0
     /\ {"zcl_classe", "geometry"} \subseteq ret.before.columns)
    => /\ ret.validation_result.valid
       /\ ret.validation_result.errors = <<>>

C19_Witness ==
    /\ ret.op = "validate_lcz_data"
    /\ Len(ret.validation_result.warnings) = 3
    /\ ret.validation_result.valid
    /\ \E k \in DOMAIN ret.before.rows : ret.before.rows[k].zcl_classe = "NaN"
    /\ \E k \in DOMAIN ret.before.rows : ret.before.rows[k].zcl_classe = "LCZ X"

-----------------------------------------------------------------------------
(* The catalog *)

\* C20: the catalog always has exactly one row per code 1..17, in increasing
\* order of code, each with a symbol and descriptive fields; no call of the
\* pipeline changes it; and a joined row has absent fields exactly when its
\* code is not one of 1..17.
C20_CatalogComplete ==
    /\ Len(lcz_info) = 17
    /\ \A k \in 1..17 :
          /\ lcz_info[k].lcz = k
          /\ lcz_info[k].zcl_classe # "NaN"
          /\ lcz_info[k].descricao # "NaN"
    /\ lcz_info = LCZ_INFO
    /\ pc = "processed" =>
          \A k \in DOMAIN result :
              /\ (result[k].lcz \in 1..17) <=> (result[k].zcl_classe # "NaN")
              /\ (result[k].lcz \in 1..17) <=> (result[k].descricao # "NaN")

C20_Witness ==
    /\ pc = "processed"
    /\ lcz_info = LCZ_INFO
    /\ \E k \in DOMAIN result : result[k].lcz = 0 /\ result[k].descricao = "NaN"
    /\ \E k \in DOMAIN result :
          result[k].lcz = 3 /\ result[k].descricao = "Compact low-rise"

-----------------------------------------------------------------------------
(* Failures of the raster pipeline *)

\* C21: when a call of aggregate_raster or process_lcz_map fails, the caller
\* receives a DataProcessingError.
C21_FailureIsDataProcessingError ==
    pc = "failed" => error.cls = "DataProcessingError"

-----------------------------------------------------------------------------
(* Concurrent calls of lcz_get_map *)

\* the counters of a call agree with the failures that call itself has met
OwnBudget(g) ==
    /\ Len(g.queries) <= geocode_retries
    /\ g.opens <= max_retries
    /\ g.pc = "geocode" =>
          /\ g.geocode_attempt = Len(g.geo_failed)
          /\ Len(g.queries) = Len(g.geo_failed)
    /\ g.pc = "raster" =>
          /\ g.attempt = Len(g.caught)
          /\ g.opens = Len(g.caught)
    /\ (g.pc = "raised" /\ g.raised.cls = "GeocodeError") =>
          /\ Len(g.geo_failed) = geocode_retries
          /\ g.opens = 0
    /\ (g.pc = "raised" /\ g.raised.cls = "ConnectionError") =>
          /\ Len(g.caught) = max_retries
          /\ g.opens = max_retries
    /\ Succeeded(g) => g.opens = Len(g.caught) + 1

C22_Inv == \A p \in active : OwnBudget(get[p])

\* C22: with two calls of lcz_get_map interleaved, each call makes up to 3
\* geocoding and up to 5 raster attempts counted by its own failures alone: it
\* fails with GeocodeError exactly after 3 failures of its own and with
\* ConnectionError exactly after 5 of its own, and a step of one call changes
\* no local variable of the other.
C22_CountersPerInvocation ==
    /\ []C22_Inv
    /\ [][\A p, q \in active :
             (p # q /\ get'[p] # get[p]) => get'[q] = get[q]]_vars

C22_Witness ==
    /\ active = {1, 2}
    /\ get[1].pc = "raised"
    /\ get[1].raised.cls = "ConnectionError"
    /\ Len(get[1].caught) = 5
    /\ Len(get[1].geo_failed) = 2
    /\ get[2].pc = "returned"
    /\ Len(get[2].caught) = 2
    /\ Len(get[2].geo_failed) = 1

\* C23: when a call that was asked to save its clip has returned, the file
\* LCZ4r_output/lcz_map.tif holds the grid that call returned, whatever other
\* calls run at the same time.
C23_SavedGridIsOwn ==
    \A p \in active :
        (get[p].pc = "returned" /\ get[p].isave_map) => files.lcz_map = get[p].returned

-----------------------------------------------------------------------------
(* Waits, queries and error classes of lcz_get_map *)

\* the waits of the geocoding loop and those of the raster loop, in order
GeoSleeps(g) == SubSeq(g.sleeps, 1, Min(Len(g.geo_failed), geocode_retries - 1))
RasterSleeps(g) == SubSeq(g.sleeps, Len(GeoSleeps(g)) + 1, Len(g.sleeps))

\* each wait is twice the one before, up to the cap of 30 seconds
Doubles(s) == \A k \in 2..Len(s) : s[k] = Min(2 * s[k - 1], 30)

RetriesOf(attempts) == IF attempts = 0 THEN 0 ELSE attempts - 1

\* C24 as claimed: in the geocoding loop and in the raster loop every wait is
\* twice the previous one (up to a cap), whatever kind of failure is retried,
\* and a call that has ended has waited once per retry: between attempts only,
\* never after its last attempt.
C24_BackoffDoubles ==
    \A p \in active :
        LET g == get[p]
        IN /\ Doubles(GeoSleeps(g))
           /\ Doubles(RasterSleeps(g))
           /\ Finished(g) =>
                 Len(g.sleeps) = RetriesOf(Len(g.queries)) + RetriesOf(g.opens)

Distinct(s) == \A j, k \in DOMAIN s : j # k => s[j] # s[k]

\* C25 as claimed: for every place name the queries of a call are the name as
\* given, then the name with a country qualifier, then the name with the
\* generic suffix, and no query repeats an earlier one.
C25_QueriesAllDiffer ==
    \A p \in active :
        LET g == get[p]
        IN /\ Distinct(g.queries)
           /\ Len(g.queries) >= 1 => g.queries[1] = g.city
           /\ Len(g.queries) >= 3 => g.queries[3] = g.city \o <<"city">>

\* C25, amended: attempt 1 asks for the name as given and attempt 3 for the
\* name followed by "city"; attempt 2 asks for the name followed by ", Brazil"
\* when the name holds no comma, and then the three queries differ from one
\* another; for a name that holds a comma attempt 2 repeats the query of
\* attempt 1.
C25_QueryReformulation ==
    \A p \in active :
        LET g == get[p]
        IN /\ Len(g.queries) >= 1 => g.queries[1] = g.city
           /\ Len(g.queries) >= 2 =>
                 IF Contains(g.city, ",")
                 THEN g.queries[2] = g.queries[1]
                 ELSE g.queries[2] = g.city \o <<",", "Brazil">>
           /\ Len(g.queries) >= 3 =>
                 /\ g.queries[3] = g.city \o <<"city">>
                 /\ g.queries[3] # g.queries[1]
                 /\ g.queries[3] # g.queries[2]
           /\ ~Contains(g.city, ",") => Distinct(g.queries)

\* three failed attempts for a name that holds a comma
C25_Witness ==
    \E p \in active :
        /\ Contains(get[p].city, ",")
        /\ Len(get[p].queries) = 3
        /\ get[p].queries[2] = get[p].city
        /\ get[p].pc = "raised"
        /\ get[p].raised.cls = "GeocodeError"

\* an open failure that reports a missing file or an HTTP 404
NotFound(err) ==
    Contains(err.msg, "404") \/ Contains(err.msg, "No such file or directory")

\* C26 as claimed: a missing-file or 404 failure ends the call at once with
\* DataProcessingError; only transient network failures are retried and only
\* they end in ConnectionError; a DataProcessingError raised inside an attempt
\* ends the call as DataProcessingError, whatever the place name.
C26_RasterErrorClasses ==
    \A p \in active :
        LET g == get[p]
        IN /\ \A k \in DOMAIN g.caught :
                 /\ (NotFound(g.caught[k]) \/ g.caught[k].cls = "DataProcessingError") =>
                       /\ k = Len(g.caught)
                       /\ g.pc = "raised"
                       /\ g.raised.cls = "DataProcessingError"
                 /\ k < Len(g.caught) => Transient(g.caught[k])
           /\ (g.pc = "raised" /\ g.raised.cls = "ConnectionError") => AllTransient(g)

-----------------------------------------------------------------------------
(* Reports of validate_lcz_data and totals of lcz_cal_area *)

\* validate_lcz_data was the last operation, on a set with at least one polygon
ValidatedNonEmpty ==
    /\ ret.op = "validate_lcz_data"
    /\ ~ret.before.is_none
    /\ Len(ret.before.rows) > 0

InfoHas(msg) ==
    \E k \in DOMAIN ret.validation_result.info : ret.validation_result.info[k].msg = msg

\* C27 as claimed: for every non-empty input, one with a missing required
\* column included, the info of the report holds the number of records, the
\* number of distinct classes when the input has a zcl_classe column and the
\* total area when it has an area_km2 column.
C27_InfoAlwaysFilled ==
    ValidatedNonEmpty =>
        /\ \E k \in DOMAIN ret.validation_result.info :
              /\ ret.validation_result.info[k].msg = "Total de registros"
              /\ ret.validation_result.info[k].n = Len(ret.before.rows)
        /\ "zcl_classe" \in ret.before.columns => InfoHas("Classes LCZ presentes")
        /\ "area_km2" \in ret.before.columns => InfoHas("Area total")

Abs(x) == IF x < 0 THEN 0 - x ELSE x

\* C28 as claimed: in every result lcz_cal_area returns, the polygon count of
\* the summary and the sum of the per-class counts are the number of input
\* polygons, polygons of absent symbol included, and the per-class areas add
\* up to the area of all input polygons (to the rounding of the table: half a
\* thousandth of a km2 per class).
C28_InputConserved ==
    CalReturned =>
        LET st == ret.r.stats
            rows == ret.before.rows
        IN /\ ret.r.summary.num_total_poligonos = Len(rows)
           /\ SumSeq([n \in DOMAIN st |-> st[n].num_poligonos]) = Len(rows)
           /\ "area_km2" \in ret.before.columns =>
                 Abs(SumSeq([n \in DOMAIN st |-> st[n].area_total_km2])
                       - SumSeq([k \in DOMAIN rows |-> rows[k].area_km2])) <= 5 * Len(st)

\* C29: in every report validate_lcz_data returns, valid is false exactly when
\* the list of errors is not empty, and the report is built by that call
\* alone: no entry appears twice and a second call on the same polygon set
\* returns the report of the first, with nothing carried over.
C29_ReportConsistent ==
    ret.op = "validate_lcz_data" =>
        LET r == ret.validation_result
        IN /\ ~r.valid <=> r.errors # <<>>
           /\ Distinct(r.errors)
           /\ Distinct(r.warnings)
           /\ Distinct(r.info)
           /\ ret.calls = 2 => r = ret.first

\* a second call on a set without its zcl_classe column: two errors, as in
\* the first call
C29_Witness ==
    /\ ret.op = "validate_lcz_data"
    /\ ret.calls = 2
    /\ ~ret.validation_result.valid
    /\ Len(ret.validation_result.errors) = 2
    /\ Len(ret.validation_result.warnings) = 1

-----------------------------------------------------------------------------------------------------------------------------------------------------
(* The session after a run *)

\* the stages of a run the claim names
NamedStages ==
    {"input validation", "acquisition", "vector processing", "enhancement",
     "data validation"}

\* whether an event is a run, and the latest run of the session
IsRun(k) == runs[k].op = "processar_mapa_lcz"
LatestRun == CHOOSE k \in DOMAIN runs : IsRun(k) /\ \A j \in DOMAIN runs : IsRun(j) => j <= k

\* the session holds no map and reports a failure
ClearedWithError ==
    /\ session.lcz_data = <<>>
    /\ session.lcz_raster_data = <<>>
    /\ session.lcz_city_name = <<>>
    /\ ~session.lcz_processing_success
    /\ session.lcz_error_message # <<>>

\* C30 as claimed: after any sequence of runs, when the latest event is a run
\* that failed at input validation, acquisition, vector processing,
\* enhancement or data validation, the session holds no polygon data, no
\* raster data and no city name, lcz_processing_success is false and
\* lcz_error_message is not empty; and, once a run has ended,
\* lcz_processing_success is true only when the latest run saved its data and
\* the session holds the data of that run's city.
C30_SessionAfterFailedRun ==
    run.pc \in {"idle", "page"} =>
        /\ (/\ runs # <<>>
            /\ IsRun(Len(runs))
            /\ runs[Len(runs)].failed_at \in NamedStages)
           => ClearedWithError
        /\ (session.lcz_processing_success /\ \E k \in DOMAIN runs : IsRun(k)) =>
              /\ runs[LatestRun].saved
              /\ session.lcz_data # <<>>
              /\ session.lcz_raster_data # <<>>
              /\ session.lcz_city_name = <<runs[LatestRun].city>>

====
